---- MODULE Spec2Model ----
(***************************************************************************)
(* Model of the ingredient co-occurrence pipeline                          *)
(* (utils/preprocess_ingredients_matrix.py): the text normalizer, the      *)
(* recipe loader, the top-N selection, the matrix construction and the     *)
(* persistence step.                                                       *)
(*                                                                         *)
(* A Python str is a sequence of one-character strings.  A raw recipe      *)
(* field is described by what ast.literal_eval makes of its text.          *)
(***************************************************************************)
EXTENDS Integers, Sequences, FiniteSets, TLC

VARIABLES
    ingredient,              \* normalizer harness: the raw string handed to normalize_ingredient
    once,                    \* normalize_ingredient(ingredient)
    twice,                   \* normalize_ingredient(once)
    npc,                     \* normalizer harness position
    recipes_file,            \* the source table: [exists, rows]; a row is its 'ingredients' field
    n_ingredients,           \* self.n_ingredients
    pc,                      \* position of run_pipeline
    error,                   \* the exception run_pipeline re-raised, or "none"
    normalized_ingredients,  \* df['normalized_ingredients'], one list per recipe
    ingredient_counts,       \* Counter(all_ingredients): <<token, count>> in insertion order
    top_ingredients,         \* labels selected by get_top_ingredients
    cooc_matrix,             \* [index, columns, cells]: the DataFrame of build_cooccurrence_matrix
    matrix_csv,              \* data/ingredients_cooccurrence_matrix.csv: [exists, content]
    list_csv,                \* data/ingredients_list.csv: [exists, rows]
    lpc,                     \* position of _load_cooccurrence_matrix
    load_result,             \* what the caller of _load_cooccurrence_matrix received
    mismatch_report,         \* the "Mismatch labels" warning: [warned, rows_only, cols_only]
    spc,                     \* selector harness position
    sel_matrix,              \* cooc_matrix argument of _select_top_ingredients
    sel_list,                \* ingredients_list argument: rows of [ingredient, frequency]
    sel_n,                   \* n argument
    sel_result,              \* outcome of the call: [raised, fallback, sub_matrix, top_final]
    sel_again,               \* outcome of a second call on the same arguments
    kpc,                     \* cache key harness position
    key_call,                \* [analyzer, operation, first, second]: two params mappings
    first_key,               \* _generate_key(analyzer, operation, first)
    second_key,              \* _generate_key(analyzer, operation, second)
    cache_files,             \* the cache directory: entry path -> [kind, data]
    cache_enabled,           \* self._cache_enabled of the analyzer
    last_call,               \* the latest cache operation and what it returned
    latest,                  \* per entry: payload of the latest successful set not cleared since
    entry_note,              \* per entry: what happened to it since that set
    runs,                    \* per entry: runs of the wrapped function since the last clear
    ops_done,                \* operations of the explored sequence so far
    page,                    \* matrix_path and ingredients_list_path of the constructed page
    session,                 \* st.session_state: the keys present and their values
    sidebar,                 \* the params of the latest render_sidebar
    load_memo,               \* what st.cache_data holds for _load_cooccurrence_matrix
    run_result,              \* what the latest script run did
    runs_done                \* script runs so far

normVars == <<ingredient, once, twice, npc>>
pipeVars == <<recipes_file, n_ingredients, pc, error, normalized_ingredients,
              ingredient_counts, top_ingredients, cooc_matrix, matrix_csv, list_csv>>
loadVars == <<lpc, load_result, mismatch_report>>
selVars == <<spc, sel_matrix, sel_list, sel_n, sel_result, sel_again>>
keyVars == <<kpc, key_call, first_key, second_key>>
cacheVars == <<cache_files, cache_enabled, last_call, latest, entry_note, runs, ops_done>>
runVars == <<page, session, sidebar, load_memo, run_result, runs_done>>
pageVars == <<loadVars, selVars, keyVars, cacheVars, runVars>>
vars == <<normVars, pipeVars, pageVars>>

----------------------------------------------------------------------------
(* Bounds of the explored inputs. *)

MaxLen == 5

MaxRecipes == 2

\* raw ingredient entries in the whole table
MaxIngs == 4

MaxTopN == 2

----------------------------------------------------------------------------
(* Characters and strings. *)

LowerLetters ==
    {"a","b","c","d","e","f","g","h","i","j","k","l","m",
     "n","o","p","q","r","s","t","u","v","w","x","y","z"}

UpperLetters == {"O", "L", "D"}

Whitespace == {" "}

\* \w of the regular expression: letters (digits and "_" are not drawn here)
IsWordChar(c) == c \in LowerLetters \cup UpperLetters

IsSpace(c) == c \in Whitespace

\* str.lower() on one character
LowerChar(c) ==
    CASE c = "O" -> "o"
      [] c = "L" -> "l"
      [] c = "D" -> "d"
      [] OTHER -> c

Lower(s) == [i \in 1..Len(s) |-> LowerChar(s[i])]

RECURSIVE LStrip(_)
LStrip(s) ==
    IF s = <<>> THEN s
    ELSE IF IsSpace(Head(s)) THEN LStrip(Tail(s)) ELSE s

RECURSIVE RStrip(_)
RStrip(s) ==
    IF s = <<>> THEN s
    ELSE IF IsSpace(s[Len(s)]) THEN RStrip(SubSeq(s, 1, Len(s) - 1)) ELSE s

\* str.strip()
Strip(s) == RStrip(LStrip(s))

\* re.sub(r"[^\w\s]", " ", t)
SubPunct(s) ==
    [i \in 1..Len(s) |-> IF IsWordChar(s[i]) \/ IsSpace(s[i]) THEN s[i] ELSE " "]

\* re.sub(r"\s+", " ", t)
RECURSIVE CollapseSpaces(_)
CollapseSpaces(s) ==
    IF s = <<>> THEN <<>>
    ELSE IF IsSpace(Head(s)) THEN <<" ">> \o CollapseSpaces(LStrip(Tail(s)))
    ELSE <<Head(s)>> \o CollapseSpaces(Tail(s))

\* str.split(): the maximal runs of non-whitespace characters, in order
RECURSIVE SplitFrom(_, _, _)
SplitFrom(s, cur, acc) ==
    IF s = <<>> THEN (IF cur = <<>> THEN acc ELSE Append(acc, cur))
    ELSE IF IsSpace(Head(s))
         THEN SplitFrom(Tail(s), <<>>, IF cur = <<>> THEN acc ELSE Append(acc, cur))
         ELSE SplitFrom(Tail(s), Append(cur, Head(s)), acc)

Split(s) == SplitFrom(s, <<>>, <<>>)

\* " ".join(tokens)
RECURSIVE Join(_)
Join(tokens) ==
    IF tokens = <<>> THEN <<>>
    ELSE IF Len(tokens) = 1 THEN tokens[1]
    ELSE tokens[1] \o <<" ">> \o Join(Tail(tokens))

\* self.stop_words
stop_words == {
    <<"l","a","r","g","e">>, <<"s","m","a","l","l">>, <<"m","e","d","i","u","m">>,
    <<"e","x","t","r","a">>, <<"w","h","o","l","e">>, <<"s","l","i","c","e","d">>,
    <<"d","i","c","e","d">>, <<"c","h","o","p","p","e","d">>, <<"m","i","n","c","e","d">>,
    <<"g","r","o","u","n","d">>, <<"b","l","a","c","k">>, <<"w","h","i","t","e">>,
    <<"r","e","d">>, <<"g","r","e","e","n">>, <<"d","a","r","k">>, <<"l","i","g","h","t">>,
    <<"f","r","e","s","h">>, <<"d","r","i","e","d">>, <<"f","r","o","z","e","n">>,
    <<"c","a","n","n","e","d">>, <<"r","a","w">>, <<"c","o","o","k","e","d">>,
    <<"g","r","i","l","l","e","d">>, <<"f","r","i","e","d">>, <<"r","o","a","s","t","e","d">>,
    <<"c","r","u","s","h","e","d">>, <<"s","h","r","e","d","d","e","d">>,
    <<"g","r","a","t","e","d">>, <<"o","r","g","a","n","i","c">>,
    <<"n","a","t","u","r","a","l">>, <<"p","u","r","e">>, <<"v","i","r","g","i","n">>,
    <<"p","r","e","m","i","u","m">>, <<"o","l","d">>, <<"n","e","w">>, <<"a","g","e","d">>,
    <<"c","a","n">>, <<"j","a","r">>, <<"b","o","t","t","l","e">>, <<"b","a","g">>,
    <<"u","n","s","a","l","t","e","d">>, <<"s","a","l","t","e","d">>, <<"l","o","w">>,
    <<"r","e","d","u","c","e","d">>, <<"f","r","e","e">>, <<"w","i","t","h">>,
    <<"w","i","t","h","o","u","t">>, <<"a","n","d">>, <<"t","h","e">>
    }

\* the loop "if word not in self.stop_words and len(word) > 1: tokens.append(word)"
FilterTokens(words) ==
    SelectSeq(words, LAMBDA word : word \notin stop_words /\ Len(word) > 1)

\* The same function with the stop-word filter run before the punctuation is cleaned.
normalize_ingredient_filter_first(raw) ==
    LET t0 == Strip(Lower(raw))
        tokens == FilterTokens(Split(t0))
        kept == IF tokens # <<>> THEN Join(tokens) ELSE t0
        normalized == Strip(CollapseSpaces(SubPunct(kept)))
    IN  IF normalized # <<>> THEN normalized ELSE Lower(raw)

\* The same function without the final "else ingredient.lower()".
normalize_ingredient_no_fallback(raw) ==
    LET t == Strip(CollapseSpaces(SubPunct(Strip(Lower(raw)))))
        tokens == FilterTokens(Split(t))
    IN  IF tokens # <<>> THEN Join(tokens) ELSE t

\* The same function with the final fallback trimmed.
normalize_ingredient_trimmed_fallback(raw) ==
    LET t == Strip(CollapseSpaces(SubPunct(Strip(Lower(raw)))))
        tokens == FilterTokens(Split(t))
        normalized == IF tokens # <<>> THEN Join(tokens) ELSE t
    IN  IF normalized # <<>> THEN normalized ELSE Strip(Lower(raw))

\* The same function falling back to the uncleaned text when no token survives.
normalize_ingredient_raw_fallback(raw) ==
    LET t0 == Strip(Lower(raw))
        t == Strip(CollapseSpaces(SubPunct(t0)))
        tokens == FilterTokens(Split(t))
        normalized == IF tokens # <<>> THEN Join(tokens) ELSE t0
    IN  IF normalized # <<>> THEN normalized ELSE Lower(raw)

normalize_ingredient(raw) ==
    LET t0 == Strip(Lower(raw))
        t == Strip(CollapseSpaces(SubPunct(t0)))
        tokens == FilterTokens(Split(t))
        normalized == IF tokens # <<>> THEN Join(tokens) ELSE t
    IN  IF normalized # <<>> THEN normalized ELSE Lower(raw)

----------------------------------------------------------------------------
(* The recipe table and its parsing. *)

\* A list element: a str, or anything else (an int, a nested list, None).
Str(s) == [isstr |-> TRUE, s |-> s]

NonString == [isstr |-> FALSE, s |-> <<>>]

\* The text of an 'ingredients' field, by what ast.literal_eval makes of it:
\*   "list"       a list display, e.g. "['flour', 'sugar']"  (elems: its elements)
\*   "nonlist"    another literal, e.g. "42" or "('a', 'b')"
\*   "syntaxerr"  not Python syntax, e.g. "" or "invalid string"
\*   "valueerr"   syntax but no literal, e.g. "flour"; also a missing field (NaN)
\*   "typeerr"    a display with an unhashable key or member, e.g. "{[1]: 2}"
ListText(elems) == [kind |-> "list", elems |-> elems]

OtherText(kind) == [kind |-> kind, elems |-> <<>>]

\* ast.literal_eval(ingredients_str)
literal_eval(text) ==
    CASE text.kind = "list" ->
            [raises |-> "none", islist |-> TRUE, elems |-> text.elems]
      [] text.kind = "nonlist" ->
            [raises |-> "none", islist |-> FALSE, elems |-> <<>>]
      [] text.kind = "syntaxerr" ->
            [raises |-> "SyntaxError", islist |-> FALSE, elems |-> <<>>]
      [] text.kind = "valueerr" ->
            [raises |-> "ValueError", islist |-> FALSE, elems |-> <<>>]
      [] text.kind = "typeerr" ->
            [raises |-> "TypeError", islist |-> FALSE, elems |-> <<>>]

\* _parse_ingredients_string: "except (ValueError, SyntaxError): return []"
parse_ingredients_string(ingredients_str) ==
    LET r == literal_eval(ingredients_str)
    IN  IF r.raises \in {"ValueError", "SyntaxError"}
        THEN [raises |-> "none", islist |-> TRUE, elems |-> <<>>]
        ELSE r

Range(f) == {f[i] : i \in DOMAIN f}

\* list(dict.fromkeys(xs)): the first occurrence of each value, in order
RECURSIVE DictFromKeys(_, _)
DictFromKeys(xs, acc) ==
    IF xs = <<>> THEN acc
    ELSE DictFromKeys(Tail(xs),
                      IF Head(xs) \in Range(acc) THEN acc ELSE Append(acc, Head(xs)))

\* raw ingredient strings of the explored tables: "dd", "Old dd", "lo", "od"
RawStrings ==
    { <<"d","d">>, <<"O","l","d"," ","d","d">>, <<"l","o">>, <<"o","d">> }

\* self.normalize_ingredient(ing) for the raw strings of the explored tables
NormalizedRaw == [s \in RawStrings |-> normalize_ingredient(s)]

\* The loop body of load_and_process_recipes without the deduplication.
NormalizeRow_no_dedup(parsed) ==
    IF ~parsed.islist THEN [raises |-> "none", list |-> <<>>]
    ELSE IF \E i \in 1..Len(parsed.elems) : ~parsed.elems[i].isstr
    THEN [raises |-> "AttributeError", list |-> <<>>]
    ELSE [raises |-> "none",
          list |-> [i \in 1..Len(parsed.elems) |-> NormalizedRaw[parsed.elems[i].s]]]

\* The loop body of load_and_process_recipes deduplicating the raw strings
\* before they are normalized.
NormalizeRow_dedup_raw(parsed) ==
    IF ~parsed.islist THEN [raises |-> "none", list |-> <<>>]
    ELSE IF \E i \in 1..Len(parsed.elems) : ~parsed.elems[i].isstr
    THEN [raises |-> "AttributeError", list |-> <<>>]
    ELSE LET raw_ings == DictFromKeys(parsed.elems, <<>>)
         IN  [raises |-> "none",
              list |-> [i \in 1..Len(raw_ings) |-> NormalizedRaw[raw_ings[i].s]]]

\* The loop body of load_and_process_recipes for one row: a list is normalized
\* element by element (a non-str element has no .lower()) and deduplicated,
\* anything else gives [].
NormalizeRow(parsed) ==
    IF ~parsed.islist THEN [raises |-> "none", list |-> <<>>]
    ELSE IF \E i \in 1..Len(parsed.elems) : ~parsed.elems[i].isstr
    THEN [raises |-> "AttributeError", list |-> <<>>]
    ELSE [raises |-> "none",
          list |-> DictFromKeys([i \in 1..Len(parsed.elems) |->
                                    NormalizedRaw[parsed.elems[i].s]], <<>>)]

\* the first exception of a sequence of outcomes, "none" when there is none
FirstRaised(outcomes) ==
    IF \A i \in 1..Len(outcomes) : outcomes[i].raises = "none" THEN "none"
    ELSE outcomes[CHOOSE i \in 1..Len(outcomes) :
                      /\ outcomes[i].raises # "none"
                      /\ \A j \in 1..(i - 1) : outcomes[j].raises = "none"].raises

\* df['ingredients'].apply(self._parse_ingredients_string)
ParsedRows(rows) == [i \in 1..Len(rows) |-> parse_ingredients_string(rows[i])]

\* the loop "for idx, row in df.iterrows()" of load_and_process_recipes
NormalizedRows(parsed) == [i \in 1..Len(parsed) |-> NormalizeRow(parsed[i])]

NoMatrix == [index |-> <<>>, columns |-> <<>>, cells |-> <<>>]

----------------------------------------------------------------------------
(* Counting and selection. *)

\* all_ingredients: "for ings in df['normalized_ingredients']: all_ingredients.extend(ings)"
RECURSIVE Flatten(_)
Flatten(lists) ==
    IF lists = <<>> THEN <<>> ELSE Head(lists) \o Flatten(Tail(lists))

\* Counter(xs): one <<key, count>> per distinct value, in order of first occurrence
RECURSIVE Counter(_, _)
Counter(xs, acc) ==
    IF xs = <<>> THEN acc
    ELSE IF \E k \in 1..Len(acc) : acc[k][1] = Head(xs)
    THEN Counter(Tail(xs),
                 [k \in 1..Len(acc) |->
                     IF acc[k][1] = Head(xs) THEN <<acc[k][1], acc[k][2] + 1>> ELSE acc[k]])
    ELSE Counter(Tail(xs), Append(acc, <<Head(xs), 1>>))

\* ingredient_counts[key], 0 for a missing key (also dict.get(key, 0))
CountOf(counts, key) ==
    IF \E k \in 1..Len(counts) : counts[k][1] = key
    THEN counts[CHOOSE k \in 1..Len(counts) : counts[k][1] = key][2]
    ELSE 0

\* Insertion of one item into a list sorted by descending count, after the items
\* of equal count: the order sorted(items, key=count, reverse=True) gives.
RECURSIVE InsertByCount(_, _)
InsertByCount(sorted, item) ==
    IF sorted = <<>> THEN <<item>>
    ELSE IF Head(sorted)[2] >= item[2]
    THEN <<Head(sorted)>> \o InsertByCount(Tail(sorted), item)
    ELSE <<item>> \o sorted

RECURSIVE SortedByCount(_, _)
SortedByCount(items, acc) ==
    IF items = <<>> THEN acc
    ELSE SortedByCount(Tail(items), InsertByCount(acc, Head(items)))

\* most_common breaking ties in favour of the key seen last.
most_common_last_seen_first(counts, n) ==
    LET rev == [k \in 1..Len(counts) |-> counts[Len(counts) + 1 - k]]
        sorted == SortedByCount(rev, <<>>)
    IN  IF n <= 0 THEN <<>>
        ELSE SubSeq(sorted, 1, IF n < Len(sorted) THEN n ELSE Len(sorted))

\* Counter.most_common(n) = heapq.nlargest(n, items, key=count): the n first
\* items of the stable descending sort, [] for n <= 0
most_common(counts, n) ==
    LET sorted == SortedByCount(counts, <<>>)
    IN  IF n <= 0 THEN <<>>
        ELSE SubSeq(sorted, 1, IF n < Len(sorted) THEN n ELSE Len(sorted))

----------------------------------------------------------------------------
(* The matrix. *)

\* ing_to_idx[ing]
IndexOf(labels, ing) == CHOOSE k \in 1..Len(labels) : labels[k] = ing

\* np.zeros((n, n), dtype=int)
Zeros(n) == [c \in (1..n) \X (1..n) |-> 0]

\* The two nested loops over recipe_ings, from position (i, j) on:
\*   matrix[idx1, idx2] += 1;  if idx1 != idx2: matrix[idx2, idx1] += 1
RECURSIVE AddPairs(_, _, _, _, _)
AddPairs(matrix, labels, recipe_ings, i, j) ==
    IF i > Len(recipe_ings) THEN matrix
    ELSE IF j > Len(recipe_ings)
    THEN AddPairs(matrix, labels, recipe_ings, i + 1, i + 1)
    ELSE LET idx1 == IndexOf(labels, recipe_ings[i])
             idx2 == IndexOf(labels, recipe_ings[j])
             m1 == [matrix EXCEPT ![<<idx1, idx2>>] = @ + 1]
             m2 == IF idx1 # idx2 THEN [m1 EXCEPT ![<<idx2, idx1>>] = @ + 1] ELSE m1
         IN  AddPairs(m2, labels, recipe_ings, i, j + 1)

\* The inner loops writing only the upper cell matrix[idx1, idx2].
AddRecipe_upper_only(matrix, labels, row) ==
    LET recipe_ings == SelectSeq(row, LAMBDA ing : ing \in Range(labels))
        RECURSIVE Upper(_, _, _)
        Upper(m, i, j) ==
            IF i > Len(recipe_ings) THEN m
            ELSE IF j > Len(recipe_ings) THEN Upper(m, i + 1, i + 1)
            ELSE Upper([m EXCEPT ![<<IndexOf(labels, recipe_ings[i]),
                                     IndexOf(labels, recipe_ings[j])>>] = @ + 1], i, j + 1)
    IN  Upper(matrix, 1, 1)

\* One iteration of "for idx, row in df.iterrows()" of build_cooccurrence_matrix
AddRecipe(matrix, labels, row) ==
    LET recipe_ings == SelectSeq(row, LAMBDA ing : ing \in Range(labels))
    IN  AddPairs(matrix, labels, recipe_ings, 1, 1)

RECURSIVE AddRecipes(_, _, _)
AddRecipes(matrix, labels, rows) ==
    IF rows = <<>> THEN matrix
    ELSE AddRecipes(AddRecipe(matrix, labels, Head(rows)), labels, Tail(rows))

----------------------------------------------------------------------------
(* Normalizer harness: one raw string, normalized once and then again. *)

NormAlphabet == {"o", "l", "d", "O", "-", " "}

SeqsUpTo(A, n) == UNION {[1..k -> A] : k \in 0..n}

\* the output directory before the run: no artifact yet
NoArtifacts ==
    /\ matrix_csv = [exists |-> FALSE, content |-> NoMatrix]
    /\ list_csv = [exists |-> FALSE, rows |-> <<>>]

\* the artifacts left in the output directory by an earlier run
StaleLabel == <<"o", "l", "d">>

StaleArtifacts ==
    /\ matrix_csv = [exists |-> TRUE,
                     content |-> [index |-> <<StaleLabel>>, columns |-> <<StaleLabel>>,
                                  cells |-> [c \in (1..1) \X (1..1) |-> 1]]]
    /\ list_csv = [exists |-> TRUE,
                   rows |-> <<[ingredient |-> StaleLabel, frequency |-> 1]>>]

\* run_pipeline is not running
PipelineNotRunning ==
    /\ recipes_file = [exists |-> FALSE, rows |-> <<>>]
    /\ n_ingredients = 0
    /\ pc = "idle"
    /\ error = "none"
    /\ normalized_ingredients = <<>>
    /\ ingredient_counts = <<>>
    /\ top_ingredients = <<>>
    /\ cooc_matrix = NoMatrix

PipelineIdle == PipelineNotRunning /\ NoArtifacts

\* the page is not loading anything
NoResult == [returned |-> FALSE, reason |-> "none", cooc_matrix |-> NoMatrix,
             ingredients_list |-> <<>>]

NoReport == [warned |-> FALSE, rows_only |-> 0, cols_only |-> 0]

LoadIdle ==
    /\ lpc = "idle"
    /\ load_result = NoResult
    /\ mismatch_report = NoReport

NoSelection == [raised |-> "none", fallback |-> FALSE, sub_matrix |-> NoMatrix,
                top_final |-> <<>>]

SelectIdle ==
    /\ spc = "idle"
    /\ sel_matrix = NoMatrix
    /\ sel_list = <<>>
    /\ sel_n = 0
    /\ sel_result = NoSelection
    /\ sel_again = NoSelection

NoKey == <<>>

KeyIdle ==
    /\ kpc = "idle"
    /\ key_call = [analyzer |-> "none", operation |-> "none", first |-> <<>>, second |-> <<>>]
    /\ first_key = NoKey
    /\ second_key = NoKey

\* no cache operation yet
NoCall == [op |-> "none", call |-> "none", value |-> "None", result |-> "None",
           count |-> 0, enabled |-> TRUE, probe |-> "None", ran |-> FALSE]

\* the cache is not in use
CacheIdle ==
    /\ cache_files = <<>>
    /\ cache_enabled = TRUE
    /\ last_call = NoCall
    /\ latest = <<>>
    /\ entry_note = <<>>
    /\ runs = <<>>
    /\ ops_done = 0

NoPage == [matrix_path |-> "none", ingredients_list_path |-> "none"]

NoParams == [n_ingredients |-> 0, n_clusters |-> 0, tsne_perplexity |-> 0,
             analyze_button |-> FALSE]

NoSession ==
    [keys |-> {}, matrix |-> NoMatrix, ingredient_names |-> <<>>,
     clusters |-> [k |-> 0, rows |-> 0],
     tsne_data |-> [error |-> FALSE, perplexity |-> 0, n_points |-> 0],
     last_params |-> NoParams,
     by |-> [key \in {"matrix", "ingredient_names", "clusters", "tsne_data", "last_params"} |-> 0]]

NoRun == [outcome |-> "none", caller |-> "none", params_changed |-> FALSE, analyzed |-> FALSE,
          clustering |-> [called |-> FALSE, k |-> 0, rows |-> 0],
          tsne |-> [called |-> FALSE, requested |-> 0, rows |-> 0, used |-> 0],
          rendered |-> FALSE]

\* no script run yet
RunIdle ==
    /\ page = NoPage
    /\ session = NoSession
    /\ sidebar = NoParams
    /\ load_memo = NoResult
    /\ run_result = NoRun
    /\ runs_done = 0

PageIdle == LoadIdle /\ SelectIdle /\ KeyIdle /\ CacheIdle /\ RunIdle

InitNormalize ==
    /\ ingredient \in SeqsUpTo(NormAlphabet, MaxLen)
    /\ once = <<>>
    /\ twice = <<>>
    /\ npc = "start"
    /\ PipelineIdle
    /\ PageIdle

Normalize ==
    /\ npc = "start"
    /\ once' = normalize_ingredient(ingredient)
    /\ npc' = "once"
    /\ UNCHANGED <<ingredient, twice, pipeVars, pageVars>>

Renormalize ==
    /\ npc = "once"
    /\ twice' = normalize_ingredient(once)
    /\ npc' = "twice"
    /\ UNCHANGED <<ingredient, once, pipeVars, pageVars>>

NextNormalize == Normalize \/ Renormalize

SpecNormalize == InitNormalize /\ [][NextNormalize]_vars

----------------------------------------------------------------------------
(* run_pipeline: load, select, build, save; any exception is logged and re-raised. *)

NormIdle ==
    /\ ingredient = <<>>
    /\ once = <<>>
    /\ twice = <<>>
    /\ npc = "idle"

\* the list texts of at most n raw strings
ListTexts(n) == {ListText(l) : l \in SeqsUpTo({Str(s) : s \in RawStrings}, n)}

\* the tables of at most r rows, each a list text, of at most n raw strings in all
RECURSIVE TablesOf(_, _)
TablesOf(r, n) ==
    IF r = 0 THEN {<<>>}
    ELSE {<<>>} \cup
         UNION { { <<text>> \o rest : rest \in TablesOf(r - 1, n - Len(text.elems)) } :
                 text \in ListTexts(n) }

\* the texts of a field of any kind: the empty list, the lists of one element
\* (a str or not), and one text of each other kind
IngredientTexts ==
    {ListText(<<>>), ListText(<<NonString>>)}
        \cup {ListText(<<Str(s)>>) : s \in RawStrings}
        \cup {OtherText(k) : k \in {"nonlist", "syntaxerr", "valueerr", "typeerr"}}

PipelineStart ==
    /\ n_ingredients \in 0..MaxTopN
    /\ pc = "load"
    /\ error = "none"
    /\ normalized_ingredients = <<>>
    /\ ingredient_counts = <<>>
    /\ top_ingredients = <<>>
    /\ cooc_matrix = NoMatrix
    /\ NormIdle
    /\ PageIdle

\* a source file that is missing, or a table whose every field is a list of strings
Init ==
    /\ recipes_file \in
          {[exists |-> FALSE, rows |-> <<>>]}
              \cup {[exists |-> TRUE, rows |-> t] : t \in TablesOf(MaxRecipes, MaxIngs)}
    /\ PipelineStart
    /\ NoArtifacts

\* a source file that is missing, or a table whose fields are texts of any kind;
\* the output directory is empty or holds the artifacts of an earlier run
InitFields ==
    /\ recipes_file \in
          {[exists |-> FALSE, rows |-> <<>>]}
              \cup {[exists |-> TRUE, rows |-> t] : t \in SeqsUpTo(IngredientTexts, MaxRecipes)}
    /\ PipelineStart
    /\ NoArtifacts \/ StaleArtifacts

\* "except Exception as e: ... raise" of run_pipeline
Raise(exc) ==
    /\ pc' = "raised"
    /\ error' = exc

\* a loader that reads a missing file as an empty table
load_and_process_recipes_missing_as_empty ==
    /\ pc = "load"
    /\ LET parsed == ParsedRows(recipes_file.rows)
           normalized == NormalizedRows(parsed)
       IN  IF FirstRaised(parsed) # "none"
           THEN Raise(FirstRaised(parsed)) /\ UNCHANGED normalized_ingredients
           ELSE IF FirstRaised(normalized) # "none"
           THEN Raise(FirstRaised(normalized)) /\ UNCHANGED normalized_ingredients
           ELSE /\ normalized_ingredients' =
                       [i \in 1..Len(normalized) |-> normalized[i].list]
                /\ pc' = "top"
                /\ error' = error
    /\ UNCHANGED <<recipes_file, n_ingredients, ingredient_counts, top_ingredients,
                   cooc_matrix, matrix_csv, list_csv, normVars, pageVars>>

load_and_process_recipes ==
    /\ pc = "load"
    /\ IF ~recipes_file.exists
       THEN Raise("FileNotFoundError") /\ UNCHANGED normalized_ingredients
       ELSE LET parsed == ParsedRows(recipes_file.rows)
                normalized == NormalizedRows(parsed)
            IN  IF FirstRaised(parsed) # "none"
                THEN Raise(FirstRaised(parsed)) /\ UNCHANGED normalized_ingredients
                ELSE IF FirstRaised(normalized) # "none"
                THEN Raise(FirstRaised(normalized)) /\ UNCHANGED normalized_ingredients
                ELSE /\ normalized_ingredients' =
                            [i \in 1..Len(normalized) |-> normalized[i].list]
                     /\ pc' = "top"
                     /\ error' = error
    /\ UNCHANGED <<recipes_file, n_ingredients, ingredient_counts, top_ingredients,
                   cooc_matrix, matrix_csv, list_csv, normVars, pageVars>>

get_top_ingredients ==
    /\ pc = "top"
    /\ LET counts == Counter(Flatten(normalized_ingredients), <<>>)
           common == most_common(counts, n_ingredients)
           top == [k \in 1..Len(common) |-> common[k][1]]
       IN  \* the log lines read most_common(1)[0] and top_ingredients[-1]
           IF counts = <<>> \/ top = <<>>
           THEN Raise("IndexError") /\ UNCHANGED <<top_ingredients, ingredient_counts>>
           ELSE /\ top_ingredients' = top
                /\ ingredient_counts' = counts
                /\ pc' = "build"
                /\ error' = error
    /\ UNCHANGED <<recipes_file, n_ingredients, normalized_ingredients,
                   cooc_matrix, matrix_csv, list_csv, normVars, pageVars>>

build_cooccurrence_matrix ==
    /\ pc = "build"
    /\ cooc_matrix' =
          [index |-> top_ingredients,
           columns |-> top_ingredients,
           cells |-> AddRecipes(Zeros(Len(top_ingredients)), top_ingredients,
                                normalized_ingredients)]
    /\ pc' = "save"
    /\ UNCHANGED <<recipes_file, n_ingredients, error, normalized_ingredients,
                   ingredient_counts, top_ingredients, matrix_csv, list_csv, normVars, pageVars>>

\* a frequency table with one row per counted ingredient, in counting order
ingredients_list_of_every_count(matrix, counts) ==
    [k \in 1..Len(counts) |-> [ingredient |-> counts[k][1], frequency |-> counts[k][2]]]

\* ingredients_list of save_results: one row per row label of the matrix
ingredients_list(matrix, counts) ==
    [k \in 1..Len(matrix.index) |->
        [ingredient |-> matrix.index[k],
         frequency |-> CountOf(counts, matrix.index[k])]]

save_results ==
    /\ pc = "save"
    /\ matrix_csv' = [exists |-> TRUE, content |-> cooc_matrix]
    /\ list_csv' = [exists |-> TRUE, rows |-> ingredients_list(cooc_matrix, ingredient_counts)]
    /\ pc' = "done"
    /\ UNCHANGED <<recipes_file, n_ingredients, error, normalized_ingredients,
                   ingredient_counts, top_ingredients, cooc_matrix, normVars, pageVars>>

Next ==
    \/ load_and_process_recipes
    \/ get_top_ingredients
    \/ build_cooccurrence_matrix
    \/ save_results

Spec == Init /\ [][Next]_vars

SpecFields == InitFields /\ [][Next]_vars

----------------------------------------------------------------------------
(* _load_cooccurrence_matrix: read the two artifacts, check the shape of the   *)
(* matrix, repair its labels, and hand (matrix, list) to the page. A table is  *)
(* [index, columns, cells] as read by pd.read_csv(matrix_path, index_col=0).   *)

\* minimum number of rows of an accepted matrix
MinRows == 10

\* labels of the last rows and columns of the explored files
MaxTail == 2

\* characters in the order Python compares them
Alphabet ==
    <<" ", "a", "b", "c", "d", "e", "f", "g", "h", "i", "j", "k", "l", "m",
      "n", "o", "p", "q", "r", "s", "t", "u", "v", "w", "x", "y", "z">>

CharRank(c) == CHOOSE k \in 1..Len(Alphabet) : Alphabet[k] = c

\* x < y on str
RECURSIVE LabelLess(_, _)
LabelLess(x, y) ==
    IF y = <<>> THEN FALSE
    ELSE IF x = <<>> THEN TRUE
    ELSE IF x[1] = y[1] THEN LabelLess(Tail(x), Tail(y))
    ELSE CharRank(x[1]) < CharRank(y[1])

\* sorted(a set of labels)
RECURSIVE sorted(_)
sorted(S) ==
    IF S = {} THEN <<>>
    ELSE LET m == CHOOSE x \in S : \A y \in S \ {x} : LabelLess(x, y)
         IN  <<m>> \o sorted(S \ {m})

\* the positions of a label on an axis, in axis order
Positions(labels, lab) ==
    SelectSeq([k \in 1..Len(labels) |-> k], LAMBDA k : labels[k] = lab)

\* positions selected by a list of labels: every match of each label, in list order
RECURSIVE get_indexer(_, _)
get_indexer(labels, keys) ==
    IF keys = <<>> THEN <<>>
    ELSE Positions(labels, Head(keys)) \o get_indexer(labels, Tail(keys))

\* a label of the list is absent from the axis: pandas raises KeyError
KeyMissing(labels, keys) == \E k \in 1..Len(keys) : keys[k] \notin Range(labels)

TakeRows(df, pos) ==
    [index |-> [k \in 1..Len(pos) |-> df.index[pos[k]]],
     columns |-> df.columns,
     cells |-> [c \in (1..Len(pos)) \X (1..Len(df.columns)) |->
                   df.cells[<<pos[c[1]], c[2]>>]]]

TakeCols(df, pos) ==
    [index |-> df.index,
     columns |-> [k \in 1..Len(pos) |-> df.columns[pos[k]]],
     cells |-> [c \in (1..Len(df.index)) \X (1..Len(pos)) |->
                   df.cells[<<c[1], pos[c[2]]>>]]]

\* df.loc[rows, cols] with two lists of labels
loc(df, rows, cols) ==
    TakeCols(TakeRows(df, get_indexer(df.index, rows)), get_indexer(df.columns, cols))

\* df[keys] with a list of column labels
getitem(df, keys) == TakeCols(df, get_indexer(df.columns, keys))

has_duplicates(labels) == Cardinality(Range(labels)) < Len(labels)

RECURSIVE SumRows(_, _, _)
SumRows(df, pos, j) ==
    IF pos = <<>> THEN 0
    ELSE df.cells[<<Head(pos), j>>] + SumRows(df, Tail(pos), j)

\* df.groupby(df.index).sum(): one row per distinct row label, in sorted order
groupby_index_sum(df) ==
    LET keys == sorted(Range(df.index))
    IN  [index |-> keys,
         columns |-> df.columns,
         cells |-> [c \in (1..Len(keys)) \X (1..Len(df.columns)) |->
                       SumRows(df, Positions(df.index, keys[c[1]]), c[2])]]

\* a shape check that only looks at squareness
invalid_shape_square_only(df) == Len(df.index) # Len(df.columns)

\* shape[0] != shape[1] or shape[0] < 10
invalid_shape(df) == Len(df.index) # Len(df.columns) \/ Len(df.index) < MinRows

\* index.str.strip() and columns.str.strip()
strip_labels(df) ==
    [df EXCEPT !.index = [k \in 1..Len(df.index) |-> Strip(df.index[k])],
               !.columns = [k \in 1..Len(df.columns) |-> Strip(df.columns[k])]]

label_mismatch(df) == Range(df.index) # Range(df.columns)

\* a restriction of the columns only
restrict_to_common_columns_only(df) ==
    LET common == sorted(Range(df.index) \cap Range(df.columns))
    IN  TakeCols(df, get_indexer(df.columns, common))

\* cooc_matrix.loc[common, common] with common = sorted(idx_set & col_set)
restrict_to_common(df) ==
    LET common == sorted(Range(df.index) \cap Range(df.columns))
    IN  loc(df, common, common)

\* cooc_matrix[cooc_matrix.index]
reorder_columns(df) == getitem(df, df.index)

\* groupby(index).sum(), then the columns realigned on the new index
deduplicate(df) ==
    LET grouped == groupby_index_sum(df)
    IN  getitem(grouped, grouped.index)

restricted(df) == IF label_mismatch(df) THEN restrict_to_common(df) ELSE df

reordered(df) == IF df.index # df.columns THEN reorder_columns(df) ELSE df

deduplicated(df) ==
    IF has_duplicates(df.index) \/ has_duplicates(df.columns) THEN deduplicate(df) ELSE df

\* the repairs of lines 107-142, in order
sanitize(df) == deduplicated(reordered(restricted(strip_labels(df))))

\* a column selection of the repairs names a label the columns do not have
sanitize_raises(df) ==
    LET r == restricted(strip_labels(df))
        o == reordered(r)
    IN  \/ r.index # r.columns /\ KeyMissing(r.columns, r.index)
        \/ /\ has_duplicates(o.index) \/ has_duplicates(o.columns)
           /\ KeyMissing(o.columns, groupby_index_sum(o).index)

\* the warning of lines 115-117
report_of(df) ==
    LET s == strip_labels(df)
    IN  IF label_mismatch(s)
        THEN [warned |-> TRUE,
              rows_only |-> Cardinality(Range(s.index) \ Range(s.columns)),
              cols_only |-> Cardinality(Range(s.columns) \ Range(s.index))]
        ELSE NoReport

\* ingredients_list['ingredient'].str.strip()
strip_ingredients(rows) ==
    [k \in 1..Len(rows) |-> [rows[k] EXCEPT !.ingredient = Strip(@)]]

\* st.stop(): the script run ends here and the caller receives nothing
Stop(reason) ==
    /\ lpc' = "stopped"
    /\ load_result' = [NoResult EXCEPT !.reason = reason]

load_cooccurrence_matrix ==
    /\ lpc = "load"
    /\ IF ~matrix_csv.exists
       THEN Stop("matrix_missing") /\ UNCHANGED mismatch_report
       ELSE IF invalid_shape(matrix_csv.content)
       THEN Stop("invalid_shape") /\ UNCHANGED mismatch_report
       ELSE IF sanitize_raises(matrix_csv.content)
       THEN Stop("exception") /\ mismatch_report' = report_of(matrix_csv.content)
       ELSE /\ mismatch_report' = report_of(matrix_csv.content)
            /\ IF ~list_csv.exists
               THEN Stop("list_missing")
               ELSE /\ lpc' = "returned"
                    /\ load_result' =
                          [returned |-> TRUE, reason |-> "none",
                           cooc_matrix |-> sanitize(matrix_csv.content),
                           ingredients_list |-> strip_ingredients(list_csv.rows)]
    /\ UNCHANGED <<normVars, pipeVars, selVars, keyVars, cacheVars, runVars>>

\* the labels every explored file starts both axes with: "b", "c", ...
PrefixLabels == [k \in 1..(MinRows - 1) |-> <<Alphabet[k + 2]>>]

\* the labels the last rows and columns are drawn from
TailLabels == {<<"a">>, <<" ", "a">>, <<"z">>, <<"k">>}

AxisLabels == {PrefixLabels \o t : t \in SeqsUpTo(TailLabels, MaxTail)}

\* read_csv renames a repeated column name, so the names of a header differ
HeaderLabels == {cols \in AxisLabels : ~has_duplicates(cols)}

CellKinds == {"symmetric", "asymmetric", "negative"}

\* the number the explored file holds at row i, column j
FileCell(kind, i, j) ==
    LET low == IF i < j THEN i ELSE j
        high == IF i < j THEN j ELSE i
    IN  IF kind = "asymmetric" THEN 20 * i + j
        ELSE IF kind = "negative" /\ i = 1 /\ j = 1 THEN 0 - 1
        ELSE 20 * low + high

MatrixFiles ==
    {[exists |-> FALSE, content |-> NoMatrix]} \cup
    {[exists |-> TRUE,
      content |-> [index |-> rows, columns |-> cols,
                   cells |-> [c \in (1..Len(rows)) \X (1..Len(cols)) |->
                                 FileCell(kind, c[1], c[2])]]] :
        rows \in AxisLabels, cols \in HeaderLabels, kind \in CellKinds}

ListFiles ==
    {[exists |-> FALSE, rows |-> <<>>],
     [exists |-> TRUE,
      rows |-> <<[ingredient |-> <<" ", "c">>, frequency |-> 2],
                 [ingredient |-> <<"b">>, frequency |-> 1]>>]}

InitLoad ==
    /\ matrix_csv \in MatrixFiles
    /\ list_csv \in ListFiles
    /\ PipelineNotRunning
    /\ NormIdle
    /\ lpc = "load"
    /\ load_result = NoResult
    /\ mismatch_report = NoReport
    /\ SelectIdle
    /\ KeyIdle
    /\ CacheIdle
    /\ RunIdle

NextLoad == load_cooccurrence_matrix

SpecLoad == InitLoad /\ [][NextLoad]_vars

----------------------------------------------------------------------------
(* _select_top_ingredients(cooc_matrix, ingredients_list, n), called twice on  *)
(* the same arguments. The arguments are any table and any list of rows, not   *)
(* only the ones _load_cooccurrence_matrix returns.                            *)

\* rows and columns of the matrix handed to the selector
MaxSide == 2

\* rows of the frequency list handed to the selector
MaxListRows == 2

\* xs[:n]
Take(xs, n) == SubSeq(xs, 1, IF n < Len(xs) THEN n ELSE Len(xs))

\* ingredients_list[ingredients_list['ingredient'].isin(labels)]
isin(rows, labels) == SelectSeq(rows, LAMBDA row : row.ingredient \in Range(labels))

\* rows sorted by descending frequency, rows of equal frequency in their order
RECURSIVE InsertByFrequency(_, _)
InsertByFrequency(ranked, row) ==
    IF ranked = <<>> THEN <<row>>
    ELSE IF Head(ranked).frequency >= row.frequency
    THEN <<Head(ranked)>> \o InsertByFrequency(Tail(ranked), row)
    ELSE <<row>> \o ranked

RECURSIVE SortedByFrequency(_, _)
SortedByFrequency(rows, acc) ==
    IF rows = <<>> THEN acc
    ELSE SortedByFrequency(Tail(rows), InsertByFrequency(acc, Head(rows)))

\* rows.nlargest(n, 'frequency')
nlargest(rows, n) == Take(SortedByFrequency(rows, <<>>), n)

\* a ranking that keeps every row, whatever n
ranked_labels_of_every_row(matrix, rows, n) ==
    LET top == SortedByFrequency(isin(rows, matrix.index), <<>>)
        labels == [k \in 1..Len(top) |-> top[k].ingredient]
    IN  SelectSeq(labels, LAMBDA ing : ing \in Range(matrix.columns))

\* a ranking that drops the labels missing from the columns before it takes n
ranked_labels_columns_first(matrix, rows, n) ==
    LET valid == SelectSeq(isin(rows, matrix.index),
                           LAMBDA row : row.ingredient \in Range(matrix.columns))
        top == nlargest(valid, n)
    IN  [k \in 1..Len(top) |-> top[k].ingredient]

\* top_final of lines 257-268
ranked_labels(matrix, rows, n) ==
    LET top == nlargest(isin(rows, matrix.index), n)
        labels == [k \in 1..Len(top) |-> top[k].ingredient]
        top_valid == SelectSeq(labels, LAMBDA ing : ing \in Range(matrix.columns))
    IN  Take(top_valid, n)

\* a fallback that takes the labels in sorted order
fallback_labels_sorted(matrix, n) == Take(sorted(Range(matrix.index)), n)

\* top_final of line 249
fallback_labels(matrix, n) == Take(matrix.index, n)

\* a reindex that takes cells by position instead of by label
reindex_by_position(df, labels) ==
    [index |-> labels,
     columns |-> labels,
     cells |-> [c \in (1..Len(labels)) \X (1..Len(labels)) |->
                   IF c[1] <= Len(df.index) /\ c[2] <= Len(df.columns)
                   THEN df.cells[c]
                   ELSE 0]]

\* df.reindex(index=labels, columns=labels).fillna(0)
reindex(df, labels) ==
    LET row(k) == IF df.index = labels THEN k ELSE IndexOf(df.index, labels[k])
        col(k) == IF df.columns = labels THEN k ELSE IndexOf(df.columns, labels[k])
    IN  [index |-> labels,
         columns |-> labels,
         cells |-> [c \in (1..Len(labels)) \X (1..Len(labels)) |->
                       IF labels[c[1]] \in Range(df.index) /\ labels[c[2]] \in Range(df.columns)
                       THEN df.cells[<<row(c[1]), col(c[2])>>]
                       ELSE 0]]

\* reindex refuses an axis with repeated labels, unless it is asked for that axis itself
reindex_raises(df, labels) ==
    \/ has_duplicates(df.index) /\ df.index # labels
    \/ has_duplicates(df.columns) /\ df.columns # labels

select_top_ingredients(matrix, rows, n) ==
    IF Range([k \in 1..Len(rows) |-> rows[k].ingredient]) \cap Range(matrix.index) = {}
    THEN LET top_final == fallback_labels(matrix, n)
         IN  IF KeyMissing(matrix.columns, top_final)
             THEN [NoSelection EXCEPT !.raised = "KeyError", !.fallback = TRUE]
             ELSE [raised |-> "none", fallback |-> TRUE,
                   sub_matrix |-> loc(matrix, top_final, top_final),
                   top_final |-> top_final]
    ELSE LET top_final == ranked_labels(matrix, rows, n)
         IN  IF reindex_raises(matrix, top_final)
             THEN [NoSelection EXCEPT !.raised = "ValueError"]
             ELSE [raised |-> "none", fallback |-> FALSE,
                   sub_matrix |-> reindex(matrix, top_final),
                   top_final |-> top_final]

SelectLabels == {<<"a">>, <<"b">>}

ListLabels == SelectLabels \cup {<<"x">>}

SelectAxes == SeqsUpTo(SelectLabels, MaxSide)

\* the number the explored matrix holds at row i, column j
SelectCell(i, j) == 10 * i + j

SelectMatrices ==
    {[index |-> rows, columns |-> cols,
      cells |-> [c \in (1..Len(rows)) \X (1..Len(cols)) |-> SelectCell(c[1], c[2])]] :
        rows \in SelectAxes, cols \in SelectAxes}

SelectLists ==
    SeqsUpTo([ingredient : ListLabels, frequency : {1, 2}], MaxListRows)

InitSelect ==
    /\ sel_matrix \in SelectMatrices
    /\ sel_list \in SelectLists
    /\ sel_n \in 0..MaxSide
    /\ spc = "start"
    /\ sel_result = NoSelection
    /\ sel_again = NoSelection
    /\ LoadIdle
    /\ KeyIdle
    /\ CacheIdle
    /\ RunIdle
    /\ PipelineIdle
    /\ NormIdle

Select ==
    /\ spc = "start"
    /\ sel_result' = select_top_ingredients(sel_matrix, sel_list, sel_n)
    /\ spc' = "once"
    /\ UNCHANGED <<sel_matrix, sel_list, sel_n, sel_again, loadVars, keyVars, cacheVars, runVars, pipeVars, normVars>>

SelectAgain ==
    /\ spc = "once"
    /\ sel_again' = select_top_ingredients(sel_matrix, sel_list, sel_n)
    /\ spc' = "twice"
    /\ UNCHANGED <<sel_matrix, sel_list, sel_n, sel_result, loadVars, keyVars, cacheVars, runVars, pipeVars, normVars>>

NextSelect == Select \/ SelectAgain

SpecSelect == InitSelect /\ [][NextSelect]_vars

----------------------------------------------------------------------------
(* CacheManager._generate_key(analyzer, operation, params), called on two      *)
(* params mappings. A mapping is the sequence of its <<key, value>> items in   *)
(* insertion order; values are written as their text.                          *)

\* items of a params mapping
MaxParams == 2

\* length of a key: an MD5 hex digest
KeyLength == 32

Analyzers == {"interactions", "recipes"}

Operations == {"aggregate", "outliers"}

\* parameter names, in the order str compares them
ParamNames == <<"method", "threshold", "window">>

ParamValues == {"10", "20", "iqr"}

NameRank(name) == CHOOSE k \in 1..Len(ParamNames) : ParamNames[k] = name

\* the items of a mapping sorted by key
RECURSIVE InsertByName(_, _)
InsertByName(items, item) ==
    IF items = <<>> THEN <<item>>
    ELSE IF NameRank(Head(items)[1]) < NameRank(item[1])
    THEN <<Head(items)>> \o InsertByName(Tail(items), item)
    ELSE <<item>> \o items

RECURSIVE SortedByName(_, _)
SortedByName(items, acc) ==
    IF items = <<>> THEN acc
    ELSE SortedByName(Tail(items), InsertByName(acc, Head(items)))

\* a representation that keeps the insertion order
canonical_params_insertion_order(params) == params

\* the order-independent representation of params
canonical_params(params) == SortedByName(params, <<>>)

\* the text that is hashed: analyzer, operation and the canonical params
RECURSIVE ItemsText(_)
ItemsText(items) ==
    IF items = <<>> THEN <<>>
    ELSE <<Head(items)[1], Head(items)[2]>> \o ItemsText(Tail(items))

key_text(analyzer, operation, params) ==
    <<analyzer, operation>> \o ItemsText(canonical_params(params))

Words ==
    <<"interactions", "recipes", "aggregate", "outliers", "method", "threshold", "window",
      "10", "20", "iqr">>

HexDigits == <<"1", "2", "3", "4", "5", "6", "7", "8", "9", "a", "b", "c", "d", "e", "f">>

\* the digest of a text: KeyLength hex digits. The digest stands for MD5 and is
\* free of collisions on the explored texts: one digit per word, then zeros.
hexdigest(text) ==
    [k \in 1..KeyLength |->
        IF k <= Len(text)
        THEN HexDigits[CHOOSE w \in 1..Len(Words) : Words[w] = text[k]]
        ELSE "0"]

generate_key(analyzer, operation, params) == hexdigest(key_text(analyzer, operation, params))

\* the mappings of at most n items, in every insertion order
RECURSIVE ParamsUpTo(_)
ParamsUpTo(n) ==
    IF n = 0 THEN {<<>>}
    ELSE LET shorter == ParamsUpTo(n - 1)
         IN  shorter \cup
             {Append(p, <<name, value>>) :
                 p \in {s \in shorter : Len(s) = n - 1},
                 name \in Range(ParamNames), value \in ParamValues}

DistinctNames(params) ==
    \A i, j \in 1..Len(params) : i # j => params[i][1] # params[j][1]

ParamsMappings == {p \in ParamsUpTo(MaxParams) : DistinctNames(p)}

InitKey ==
    /\ key_call \in [analyzer : Analyzers, operation : Operations,
                     first : ParamsMappings, second : ParamsMappings]
    /\ kpc = "start"
    /\ first_key = NoKey
    /\ second_key = NoKey
    /\ LoadIdle
    /\ SelectIdle
    /\ CacheIdle
    /\ RunIdle
    /\ PipelineIdle
    /\ NormIdle

GenerateFirstKey ==
    /\ kpc = "start"
    /\ first_key' = generate_key(key_call.analyzer, key_call.operation, key_call.first)
    /\ kpc' = "first"
    /\ UNCHANGED <<key_call, second_key, loadVars, selVars, cacheVars, runVars, pipeVars, normVars>>

GenerateSecondKey ==
    /\ kpc = "first"
    /\ second_key' = generate_key(key_call.analyzer, key_call.operation, key_call.second)
    /\ kpc' = "both"
    /\ UNCHANGED <<key_call, first_key, loadVars, selVars, cacheVars, runVars, pipeVars, normVars>>

NextKey == GenerateFirstKey \/ GenerateSecondKey

SpecKey == InitKey /\ [][NextKey]_vars

----------------------------------------------------------------------------
(* CacheManager get / set / clear on a directory of entries, and the           *)
(* cached_operation wrapper of CacheableMixin. An entry is addressed by        *)
(* analyzer/operation/key and holds [kind, data]; a test may also write an     *)
(* entry file directly.                                                        *)

\* operations of one explored sequence
MaxOps == 3

\* the (analyzer, operation, params) triples the explored sequences use
CacheCalls ==
    {[analyzer |-> "interactions", operation |-> "aggregate",
      params |-> <<<<"threshold", "10">>>>],
     [analyzer |-> "interactions", operation |-> "aggregate",
      params |-> <<<<"threshold", "20">>>>],
     [analyzer |-> "interactions", operation |-> "outliers",
      params |-> <<<<"threshold", "10">>>>],
     [analyzer |-> "recipes", operation |-> "aggregate",
      params |-> <<<<"threshold", "10">>>>]}

\* a path that leaves the parameters out of the key
cache_path_without_params(call) ==
    <<call.analyzer, call.operation, generate_key(call.analyzer, call.operation, <<>>)>>

\* _get_cache_path: analyzer/operation/<key>.pkl
cache_path(call) ==
    <<call.analyzer, call.operation,
      generate_key(call.analyzer, call.operation, call.params)>>

CachePaths == {cache_path(call) : call \in CacheCalls}

Absent == [kind |-> "absent", data |-> "None"]

Valid(value) == [kind |-> "valid", data |-> value]

\* payloads pickle can write, and one it cannot
Payloads == {"v1", "v2"}

Unserializable == "lambda"

\* a get that raises on an entry it cannot read
cache_get_raising(files, call) ==
    IF files[cache_path(call)].kind \in {"absent", "valid"}
    THEN files[cache_path(call)].data
    ELSE "raised"

\* get: the payload of a readable entry with the expected fields, else None
cache_get(files, call) ==
    IF files[cache_path(call)].kind = "valid" THEN files[cache_path(call)].data ELSE "None"

\* set: the entry after the call; a payload that cannot be serialized leaves none
cache_set(files, call, value) ==
    [files EXCEPT ![cache_path(call)] =
        IF value # Unserializable THEN Valid(value) ELSE Absent]

\* clear(), clear(analyzer), clear(analyzer, operation)
Scopes ==
    {[analyzer |-> "*", operation |-> "*"]}
        \cup {[analyzer |-> call.analyzer, operation |-> "*"] : call \in CacheCalls}
        \cup {[analyzer |-> call.analyzer, operation |-> call.operation] : call \in CacheCalls}

InScope(path, scope) ==
    /\ scope.analyzer = "*" \/ path[1] = scope.analyzer
    /\ scope.operation = "*" \/ path[2] = scope.operation

Covers(scope, call) ==
    /\ scope.analyzer = "*" \/ call.analyzer = scope.analyzer
    /\ scope.operation = "*" \/ call.operation = scope.operation

\* a clear that forgets the operation it was given
cache_clear_whole_analyzer(files, scope) ==
    [path \in DOMAIN files |->
        IF scope.analyzer = "*" \/ path[1] = scope.analyzer THEN Absent ELSE files[path]]

cache_clear(files, scope) ==
    [path \in DOMAIN files |-> IF InScope(path, scope) THEN Absent ELSE files[path]]

\* what the explored sequence knows of each triple: the payload of the latest
\* successful set not cleared since, what happened to it after that set, and
\* how often the wrapped function ran for it since the last clear
Forget(call, scope, old, fresh) == IF Covers(scope, call) THEN fresh ELSE old

CacheSet ==
    /\ ops_done < MaxOps
    /\ \E call \in CacheCalls, value \in Payloads \cup {Unserializable} :
          /\ cache_files' = cache_set(cache_files, call, value)
          /\ last_call' = [NoCall EXCEPT !.op = "set", !.call = call, !.value = value,
                              !.result = IF value # Unserializable THEN "True" ELSE "False"]
          /\ latest' = IF value # Unserializable
                       THEN [latest EXCEPT ![call] = value]
                       ELSE latest
          /\ entry_note' = [entry_note EXCEPT ![call] =
                               IF value # Unserializable THEN "clean" ELSE "failed_set"]
    /\ ops_done' = ops_done + 1
    /\ UNCHANGED <<cache_enabled, runs, normVars, pipeVars, loadVars, selVars, keyVars, runVars>>

CacheGet ==
    /\ ops_done < MaxOps
    /\ \E call \in CacheCalls :
          last_call' = [NoCall EXCEPT !.op = "get", !.call = call,
                           !.result = cache_get(cache_files, call)]
    /\ ops_done' = ops_done + 1
    /\ UNCHANGED <<cache_files, latest, entry_note, cache_enabled, runs,
                   normVars, pipeVars, loadVars, selVars, keyVars, runVars>>

CacheClear ==
    /\ ops_done < MaxOps
    /\ \E scope \in Scopes :
          /\ cache_files' = cache_clear(cache_files, scope)
          /\ last_call' = [NoCall EXCEPT !.op = "clear", !.call = scope,
                              !.count = Cardinality({path \in CachePaths :
                                          /\ cache_files[path].kind # "absent"
                                          /\ cache_clear(cache_files, scope)[path].kind = "absent"})]
          /\ latest' = [call \in CacheCalls |-> Forget(call, scope, latest[call], "None")]
          /\ entry_note' = [call \in CacheCalls |-> Forget(call, scope, entry_note[call], "clean")]
          /\ runs' = [call \in CacheCalls |-> Forget(call, scope, runs[call], 0)]
    /\ ops_done' = ops_done + 1
    /\ UNCHANGED <<cache_enabled, normVars, pipeVars, loadVars, selVars, keyVars, runVars>>

\* a test writes an entry file itself: unreadable bytes, or a pickle without the fields
WriteEntryFile ==
    /\ ops_done < MaxOps
    /\ \E call \in CacheCalls, kind \in {"corrupt", "invalid_format"} :
          /\ cache_files' = [cache_files EXCEPT ![cache_path(call)] = [kind |-> kind, data |-> "None"]]
          /\ last_call' = [NoCall EXCEPT !.op = "write", !.call = call, !.value = kind]
          /\ entry_note' = [entry_note EXCEPT ![call] = "tampered"]
    /\ ops_done' = ops_done + 1
    /\ UNCHANGED <<latest, cache_enabled, runs, normVars, pipeVars, loadVars, selVars, keyVars, runVars>>

\* a wrapper that computes first and probes the cache afterwards
cached_operation_compute_first(files, enabled, call, fresh) ==
    [probe |-> cache_get(files, call),
     ran |-> TRUE,
     result |-> IF enabled /\ cache_get(files, call) # "None"
                THEN cache_get(files, call) ELSE fresh,
     files |-> IF enabled /\ cache_get(files, call) = "None"
               THEN cache_set(files, call, fresh) ELSE files]

\* cached_operation: probe the cache, compute and store on a miss
cached_operation(files, enabled, call, fresh) ==
    LET probe == IF enabled THEN cache_get(files, call) ELSE "None"
    IN  IF enabled /\ probe # "None"
        THEN [probe |-> probe, ran |-> FALSE, result |-> probe, files |-> files]
        ELSE [probe |-> probe, ran |-> TRUE, result |-> fresh,
              files |-> IF enabled THEN cache_set(files, call, fresh) ELSE files]

\* what the wrapped function returns when it runs
FunctionResults == Payloads \cup {Unserializable, "None"}

CachedOperation ==
    /\ ops_done < MaxOps
    /\ \E call \in CacheCalls, fresh \in FunctionResults :
          LET out == cached_operation(cache_files, cache_enabled, call, fresh)
              stored == out.ran /\ cache_enabled
          IN  /\ cache_files' = out.files
              /\ last_call' = [NoCall EXCEPT !.op = "cached", !.call = call, !.value = fresh,
                                  !.result = out.result, !.enabled = cache_enabled,
                                  !.probe = out.probe, !.ran = out.ran]
              /\ latest' = IF stored /\ fresh # Unserializable
                           THEN [latest EXCEPT ![call] = fresh] ELSE latest
              /\ entry_note' = IF stored
                               THEN [entry_note EXCEPT ![call] =
                                        IF fresh = Unserializable THEN "failed_set"
                                        ELSE IF fresh = "None" THEN "none_stored"
                                        ELSE "clean"]
                               ELSE entry_note
              /\ runs' = IF stored
                         THEN [runs EXCEPT ![call] = IF @ < 2 THEN @ + 1 ELSE @]
                         ELSE runs
    /\ ops_done' = ops_done + 1
    /\ UNCHANGED <<cache_enabled, normVars, pipeVars, loadVars, selVars, keyVars, runVars>>

\* enable_cache(enabled)
EnableCache ==
    /\ ops_done < MaxOps
    /\ \E enabled \in BOOLEAN :
          /\ cache_enabled' = enabled
          /\ last_call' = [NoCall EXCEPT !.op = "enable", !.enabled = enabled]
    /\ ops_done' = ops_done + 1
    /\ UNCHANGED <<cache_files, latest, entry_note, runs,
                   normVars, pipeVars, loadVars, selVars, keyVars, runVars>>

\* CacheManager(base_cache_dir) on an empty directory; caching enabled by default
InitCache ==
    /\ cache_files = [path \in CachePaths |-> Absent]
    /\ cache_enabled = TRUE
    /\ last_call = NoCall
    /\ latest = [call \in CacheCalls |-> "None"]
    /\ entry_note = [call \in CacheCalls |-> "clean"]
    /\ runs = [call \in CacheCalls |-> 0]
    /\ ops_done = 0
    /\ RunIdle
    /\ LoadIdle
    /\ SelectIdle
    /\ KeyIdle
    /\ PipelineIdle
    /\ NormIdle

NextCache == CacheSet \/ CacheGet \/ CacheClear \/ WriteEntryFile

SpecCache == InitCache /\ [][NextCache]_vars

NextMixin == CachedOperation \/ CacheClear \/ EnableCache

SpecMixin == InitCache /\ [][NextMixin]_vars

----------------------------------------------------------------------------
(* App.run and IngredientsClusteringPage.run: one action per script run. The   *)
(* session state lives across runs; the page is constructed by App.run with    *)
(* the recipes path, or with its default arguments as the tests construct it.  *)

\* script runs of one explored sequence
MaxRuns == 2

\* the sliders of render_sidebar
MinIngredients == 40
MaxIngredients == 300
MinClusters == 3
MinPerplexity == 5

\* columns of a recipes table after index_col=0 has taken "id"
RecipeHeader ==
    <<<<"n", "a", "m", "e">>, <<"i", "n", "g", "r", "e", "d", "i", "e", "n", "t", "s">>,
      <<"m", "i", "n", "u", "t", "e", "s">>, <<"n", "_", "s", "t", "e", "p", "s">>>>

RecipesSource == "data/RAW_recipes.csv"

MatrixArtifact == "data/ingredients_cooccurrence_matrix.csv"

ListArtifact == "data/ingredients_list.csv"

\* IngredientsClusteringPage(str(self.config.default_recipes_path))
page_of_app == [matrix_path |-> RecipesSource, ingredients_list_path |-> ListArtifact]

\* IngredientsClusteringPage()
page_of_defaults == [matrix_path |-> MatrixArtifact, ingredients_list_path |-> ListArtifact]

\* pd.read_csv(self.matrix_path, index_col=0) on the file at that path
matrix_file_at(path) ==
    IF path = MatrixArtifact THEN matrix_csv
    ELSE [exists |-> recipes_file.exists,
          content |-> [index |-> [k \in 1..Len(recipes_file.rows) |-> <<"r">>],
                       columns |-> RecipeHeader,
                       cells |-> [c \in (1..Len(recipes_file.rows)) \X (1..Len(RecipeHeader)) |-> 0]]]

\* _load_cooccurrence_matrix without its cache: the pair, or nothing after st.stop()
loaded(mfile, lfile) ==
    IF \/ ~mfile.exists
       \/ invalid_shape(mfile.content)
       \/ sanitize_raises(mfile.content)
       \/ ~lfile.exists
    THEN NoResult
    ELSE [returned |-> TRUE, reason |-> "none",
          cooc_matrix |-> sanitize(mfile.content),
          ingredients_list |-> strip_ingredients(lfile.rows)]

\* st.cache_data ignores _self: the first returned pair answers every later call
cached_load(memo, a_page) ==
    IF memo.returned THEN memo ELSE loaded(matrix_file_at(a_page.matrix_path), list_csv)

\* KMeans(n_clusters).fit_predict refuses fewer samples than clusters
clustering_raises(rows, n_clusters) == rows < n_clusters

\* a projection that reports the requested perplexity
generate_tsne_reporting_requested(rows, perplexity) ==
    LET adjusted_perplexity == IF perplexity < rows - 1 THEN perplexity ELSE rows - 1
    IN  [used |-> adjusted_perplexity,
         data |-> IF adjusted_perplexity <= 0
                  THEN [error |-> TRUE, perplexity |-> 0, n_points |-> 0]
                  ELSE [error |-> FALSE, perplexity |-> perplexity, n_points |-> rows]]

\* _generate_tsne: perplexity min(perplexity, n_samples - 1), reported in tsne_params;
\* an exception of the embedding becomes {"error": ...}
generate_tsne(rows, perplexity) ==
    LET adjusted_perplexity == IF perplexity < rows - 1 THEN perplexity ELSE rows - 1
    IN  [used |-> adjusted_perplexity,
         data |-> IF adjusted_perplexity <= 0
                  THEN [error |-> TRUE, perplexity |-> 0, n_points |-> 0]
                  ELSE [error |-> FALSE, perplexity |-> adjusted_perplexity, n_points |-> rows]]

\* "last_params" in st.session_state and one of the three values differs from it
params_changed(sess, params) ==
    /\ "last_params" \in sess.keys
    /\ \/ sess.last_params.n_ingredients # params.n_ingredients
       \/ sess.last_params.n_clusters # params.n_clusters
       \/ sess.last_params.tsne_perplexity # params.tsne_perplexity

\* an analysis that is started by the button or an empty session only
should_analyze_ignoring_params(sess, params) ==
    params.analyze_button \/ "clusters" \notin sess.keys

\* params["analyze_button"] or "clusters" not in st.session_state or params_changed
should_analyze(sess, params) ==
    params.analyze_button \/ "clusters" \notin sess.keys \/ params_changed(sess, params)

SessionKeys == {"matrix", "ingredient_names", "clusters", "tsne_data", "last_params"}

\* the five assignments to st.session_state, each marked with the run that made it
stored(selection, n_clusters, tsne_data, params, run_id) ==
    [keys |-> SessionKeys,
     matrix |-> selection.sub_matrix,
     ingredient_names |-> selection.top_final,
     clusters |-> [k |-> n_clusters, rows |-> Len(selection.sub_matrix.index)],
     tsne_data |-> tsne_data,
     last_params |-> params,
     by |-> [key \in SessionKeys |-> run_id]]

\* the call of _select_top_ingredients, made when the pair is loaded and an
\* analysis is due
analysis_selection(sess, data, params) ==
    IF data.returned /\ should_analyze(sess, params)
    THEN select_top_ingredients(data.cooc_matrix, data.ingredients_list, params.n_ingredients)
    ELSE NoSelection

\* IngredientsClusteringPage.run() of one script run, given what the load and
\* the selection returned
page_run(sess, data, selection, params, run_id) ==
    LET rows == Len(selection.sub_matrix.index)
        tsne == generate_tsne(rows, params.tsne_perplexity)
        call == [called |-> TRUE, k |-> params.n_clusters, rows |-> rows]
        projection == [called |-> TRUE, requested |-> params.tsne_perplexity,
                       rows |-> rows, used |-> tsne.used]
    IN  IF ~data.returned
        THEN [session |-> sess, run |-> [NoRun EXCEPT !.outcome = "stopped"]]
        ELSE IF ~should_analyze(sess, params)
        THEN [session |-> sess,
              run |-> [NoRun EXCEPT !.outcome = "rendered", !.rendered = "clusters" \in sess.keys]]
        ELSE IF selection.raised # "none"
        THEN [session |-> sess,
              run |-> [NoRun EXCEPT !.outcome = selection.raised, !.analyzed = TRUE]]
        ELSE IF clustering_raises(rows, params.n_clusters)
        THEN [session |-> sess,
              run |-> [NoRun EXCEPT !.outcome = "ValueError", !.analyzed = TRUE,
                                    !.clustering = call]]
        ELSE [session |-> stored(selection, params.n_clusters, tsne.data, params, run_id),
              run |-> [NoRun EXCEPT !.outcome = "rendered", !.analyzed = TRUE,
                                    !.clustering = call, !.tsne = projection,
                                    !.rendered = TRUE]]

\* the values the explored runs set the sliders and the button to
SidebarValues ==
    [n_ingredients : {MinIngredients, MaxIngredients},
     n_clusters : {MinClusters, MinRows + 1},
     tsne_perplexity : {MinPerplexity, MinRows},
     analyze_button : BOOLEAN]

Pages == {"Home", "Analyse de clustering des ingrédients", "Analyse popularité des recettes"}

RunPage(a_page, caller, params) ==
    \E data \in {cached_load(load_memo, a_page)} :
       \E selection \in {analysis_selection(session, data, params)} :
          \E out \in {page_run(session, data, selection, params, runs_done + 1)} :
             /\ page' = a_page
             /\ sidebar' = params
             /\ session' = out.session
             /\ load_memo' = IF data.returned THEN data ELSE load_memo
             /\ run_result' = [out.run EXCEPT !.caller = caller,
                                   !.params_changed = data.returned /\ params_changed(session, params)]

\* App.run of one script run, with one page selected
AppRun ==
    /\ runs_done < MaxRuns
    /\ \E selected \in Pages :
          IF ~recipes_file.exists
          THEN /\ run_result' = [NoRun EXCEPT !.outcome = "no_data", !.caller = "app"]
               /\ UNCHANGED <<page, sidebar, session, load_memo>>
          ELSE IF selected = "Analyse de clustering des ingrédients"
          THEN \E params \in SidebarValues : RunPage(page_of_app, "app", params)
          ELSE /\ run_result' = [NoRun EXCEPT !.outcome = "other_page", !.caller = "app"]
               /\ UNCHANGED <<page, sidebar, session, load_memo>>
    /\ runs_done' = runs_done + 1
    /\ UNCHANGED <<normVars, pipeVars, loadVars, selVars, keyVars, cacheVars>>

\* IngredientsClusteringPage().run() of one script run
PageRun ==
    /\ runs_done < MaxRuns
    /\ \E params \in SidebarValues : RunPage(page_of_defaults, "defaults", params)
    /\ runs_done' = runs_done + 1
    /\ UNCHANGED <<normVars, pipeVars, loadVars, selVars, keyVars, cacheVars>>

\* a frequency table of every label of the explored matrices, one of two labels,
\* and one that shares no label with them
RunLists ==
    {[exists |-> TRUE,
      rows |-> [k \in 1..(MinRows - 1) |-> [ingredient |-> PrefixLabels[k], frequency |-> k]]
                   \o <<[ingredient |-> <<"k">>, frequency |-> MinRows]>>],
     [exists |-> TRUE,
      rows |-> <<[ingredient |-> <<" ", "c">>, frequency |-> 2],
                 [ingredient |-> <<"b">>, frequency |-> 1]>>],
     [exists |-> TRUE, rows |-> <<[ingredient |-> <<"x">>, frequency |-> 1]>>]}

\* matrix artifacts of 10 and 11 labels, the same on both axes, and one with a
\* label that repeats after strip
RunTails == {<<<<"k">>>>, <<<<"z">>, <<"k">>>>, <<<<"a">>, <<" ", "a">>>>}

RunMatrices ==
    {[exists |-> TRUE,
      content |-> [index |-> PrefixLabels \o t, columns |-> PrefixLabels \o t,
                   cells |-> [c \in (1..Len(PrefixLabels \o t)) \X (1..Len(PrefixLabels \o t)) |->
                                 FileCell("symmetric", c[1], c[2])]]] : t \in RunTails}

RunRecipes ==
    {[exists |-> FALSE, rows |-> <<>>],
     [exists |-> TRUE, rows |-> <<ListText(<<>>), ListText(<<>>)>>]}

InitRun ==
    /\ matrix_csv \in RunMatrices
    /\ list_csv \in RunLists
    /\ recipes_file \in RunRecipes
    /\ n_ingredients = 0
    /\ pc = "idle"
    /\ error = "none"
    /\ normalized_ingredients = <<>>
    /\ ingredient_counts = <<>>
    /\ top_ingredients = <<>>
    /\ cooc_matrix = NoMatrix
    /\ RunIdle
    /\ LoadIdle
    /\ SelectIdle
    /\ KeyIdle
    /\ CacheIdle
    /\ NormIdle

NextRun == AppRun \/ PageRun

SpecRun == InitRun /\ [][NextRun]_vars

----------------------------------------------------------------------------
(* Properties of normalize_ingredient, checked under SpecNormalize. *)

HasNonWhitespace(s) == \E i \in 1..Len(s) : ~IsSpace(s[i])

IsBlank(s) == ~HasNonWhitespace(s)

\* the words of the lowercased text: maximal runs of word characters
WordsOf(s) == Split(SubPunct(Lower(s)))

\* every word of the text is a stop word or a single character, and there is one
AllTokensFiltered(s) == WordsOf(s) # <<>> /\ FilterTokens(WordsOf(s)) = <<>>

\* C3: normalize_ingredient is idempotent: normalizing a normalized string
\* gives the same string, for every input string.
C3_Idempotent == npc = "twice" => twice = once

\* C3 witness: an input whose only word is a stop word followed by punctuation
\* has been normalized twice.
C3_Witness ==
    /\ npc = "twice"
    /\ AllTokensFiltered(ingredient)
    /\ \E i \in 1..Len(WordsOf(ingredient)) : WordsOf(ingredient)[i] \in stop_words
    /\ \E i \in 1..Len(ingredient) : ingredient[i] = "-"
    /\ once # ingredient

\* C4: an input with at least one non-whitespace character never normalizes
\* to the empty string.
C4_NonEmptyLabel ==
    (npc # "start" /\ HasNonWhitespace(ingredient)) => once # <<>>

\* C4 witness: an input made only of punctuation has been normalized.
C4_Witness ==
    /\ npc = "once"
    /\ ingredient # <<>>
    /\ \A i \in 1..Len(ingredient) : ingredient[i] = "-"

\* C5 as stated: an empty or whitespace-only input normalizes to the empty string.
C5_BlankGivesEmpty ==
    (npc # "start" /\ IsBlank(ingredient)) => once = <<>>

\* C5 as amended: an empty or whitespace-only input is returned as it is
\* (lowercasing leaves whitespace alone), so the result is blank, and empty
\* exactly when the input is empty.
C5_BlankReturnedUnchanged ==
    (npc # "start" /\ IsBlank(ingredient)) =>
        (once = ingredient /\ Strip(once) = <<>>)

\* C5 witness: a non-empty whitespace-only input has been normalized.
C5_Witness ==
    /\ npc = "once"
    /\ IsBlank(ingredient)
    /\ Len(ingredient) >= 2

\* C6 as stated: when the input has words and the filter removes them all, the
\* result is the lowercased, trimmed original string, punctuation intact.
C6_FallbackIsTrimmedOriginal ==
    (npc # "start" /\ AllTokensFiltered(ingredient)) =>
        once = Strip(Lower(ingredient))

\* C6 as amended: when the input has words and the filter removes them all, the
\* result is the cleaned text: the words of the lowercased input joined by single
\* spaces, every punctuation character and surplus space gone; an input without
\* any word is returned lowercased and untrimmed.
C6_FallbackIsCleanedText ==
    /\ (npc # "start" /\ AllTokensFiltered(ingredient)) =>
            once = Join(WordsOf(ingredient))
    /\ (npc # "start" /\ WordsOf(ingredient) = <<>>) =>
            once = Lower(ingredient)

\* C6 witness: an input of filtered words with punctuation and an uppercase
\* letter has been normalized.
C6_Witness ==
    /\ npc = "once"
    /\ AllTokensFiltered(ingredient)
    /\ \E i \in 1..Len(ingredient) : ingredient[i] = "-"
    /\ \E i \in 1..Len(ingredient) : ingredient[i] = "O"
    /\ once # Strip(Lower(ingredient))

----------------------------------------------------------------------------
(* Properties of the pipeline, checked under Spec (C9, C10: SpecFields). *)

Rows == recipes_file.rows

\* the raw ingredient list of recipe r, normalized element by element
RawNormalized(r) ==
    [i \in 1..Len(Rows[r].elems) |-> NormalizedRaw[Rows[r].elems[i].s]]

\* the tokens recipe r contains
RecipeTokens(r) == Range(RawNormalized(r))

AllTokens == UNION {RecipeTokens(r) : r \in 1..Len(Rows)}

\* the number of recipes that contain every token of the set
RecipesWith(tokens) == Cardinality({r \in 1..Len(Rows) : tokens \subseteq RecipeTokens(r)})

\* position of the first occurrence of x in xs
FirstIndex(xs, x) == CHOOSE k \in 1..Len(xs) : xs[k] = x /\ \A j \in 1..(k - 1) : xs[j] # x

\* the tokens of the corpus in the order the scan meets them
CorpusScan == Flatten([r \in 1..Len(Rows) |-> RawNormalized(r)])

NoDuplicates(xs) == \A i, j \in 1..Len(xs) : i # j => xs[i] # xs[j]

Size == Len(cooc_matrix.index)

\* C1: the matrix returned by build_cooccurrence_matrix is square, has the same
\* label sequence on rows and columns without duplicate label, is symmetric and
\* holds only non-negative integers.
C1_MatrixWellFormed ==
    pc = "save" =>
        /\ cooc_matrix.index = cooc_matrix.columns
        /\ NoDuplicates(cooc_matrix.index)
        /\ DOMAIN cooc_matrix.cells = (1..Size) \X (1..Size)
        /\ \A i, j \in 1..Size :
              /\ cooc_matrix.cells[<<i, j>>] = cooc_matrix.cells[<<j, i>>]
              /\ cooc_matrix.cells[<<i, j>>] \in Nat

\* C1 witness: a matrix over two labels or more, with a non-zero cell off the
\* diagonal and a diagonal cell counting two recipes, has been built.
C1_Witness ==
    /\ pc = "save"
    /\ Size >= 2
    /\ \E i, j \in 1..Size : i # j /\ cooc_matrix.cells[<<i, j>>] > 0
    /\ \E i \in 1..Size : cooc_matrix.cells[<<i, i>>] = 2

\* C2: cell [i][j] of the built matrix, i = j included, is the number of recipes
\* whose ingredients contain both label i and label j, however often a recipe
\* lists them.
C2_CellCountsRecipes ==
    pc = "save" =>
        LET tokens == [r \in 1..Len(Rows) |-> RecipeTokens(r)]
        IN  \A i, j \in 1..Size :
                cooc_matrix.cells[<<i, j>>] =
                    Cardinality({r \in 1..Len(Rows) :
                                    {cooc_matrix.index[i], cooc_matrix.index[j]}
                                        \subseteq tokens[r]})

\* C2 witness: a matrix has been built from a table in which a recipe lists two
\* raw ingredients of the same token next to another token, all of them labels.
C2_Witness ==
    /\ pc = "save"
    /\ \E r \in 1..Len(Rows) :
          /\ ~NoDuplicates(RawNormalized(r))
          /\ Cardinality(RecipeTokens(r)) >= 2
          /\ RecipeTokens(r) \subseteq Range(cooc_matrix.index)
    /\ \E i \in 1..Size : cooc_matrix.cells[<<i, i>>] = 2

Min(a, b) == IF a < b THEN a ELSE b

\* C7: get_top_ingredients returns min(top_n, number of distinct tokens) distinct
\* labels, none less frequent than an unselected token, in order of non-increasing
\* frequency, the first seen first among tokens of equal frequency, in the list
\* and at the cut-off.
C7_TopIngredients ==
    pc = "build" =>
        LET all == AllTokens
            scan == CorpusScan
            Frequency == [t \in all |-> RecipesWith({t})]
            FirstSeen == [t \in all |-> FirstIndex(scan, t)]
            Selected == Range(top_ingredients)
            Before(s, u) ==
                \/ Frequency[s] > Frequency[u]
                \/ Frequency[s] = Frequency[u] /\ FirstSeen[s] < FirstSeen[u]
        IN  /\ Len(top_ingredients) = Min(n_ingredients, Cardinality(all))
            /\ NoDuplicates(top_ingredients)
            /\ Selected \subseteq all
            /\ \A s \in Selected : \A u \in all \ Selected : Before(s, u)
            /\ \A k \in 1..(Len(top_ingredients) - 1) :
                  Before(top_ingredients[k], top_ingredients[k + 1])

\* C7 witness: the selection has put a more frequent token before one seen
\* earlier, and has left out a token as frequent as the last one selected.
C7_Witness ==
    /\ pc = "build"
    /\ \E k \in 1..(Len(top_ingredients) - 1) :
          /\ RecipesWith({top_ingredients[k]}) > RecipesWith({top_ingredients[k + 1]})
          /\ FirstIndex(CorpusScan, top_ingredients[k + 1])
                 < FirstIndex(CorpusScan, top_ingredients[k])
    /\ \E u \in AllTokens \ Range(top_ingredients) :
          RecipesWith({u}) = RecipesWith({top_ingredients[Len(top_ingredients)]})

\* C8: each recipe's normalized list holds every token of the recipe once, in
\* order of first occurrence, so that the global count of a token is the number
\* of recipes that contain it.
C8_RecipeDedup ==
    /\ pc = "top" =>
          \A r \in 1..Len(Rows) :
              LET raw == RawNormalized(r)
                  list == normalized_ingredients[r]
              IN  /\ NoDuplicates(list)
                  /\ Range(list) = Range(raw)
                  /\ \A p, q \in 1..Len(list) :
                        p < q => FirstIndex(raw, list[p]) < FirstIndex(raw, list[q])
    /\ pc = "build" =>
          \A t \in AllTokens : CountOf(ingredient_counts, t) = RecipesWith({t})

\* C8 witness: the frequencies have been counted for a table in which a recipe
\* lists two different raw ingredients of one token, and another token after them.
C8_Witness ==
    /\ pc = "build"
    /\ \E r \in 1..Len(Rows) :
          /\ Len(Rows[r].elems) = 3
          /\ Rows[r].elems[1] # Rows[r].elems[2]
          /\ RawNormalized(r)[1] = RawNormalized(r)[2]
          /\ RawNormalized(r)[3] # RawNormalized(r)[1]
          /\ Len(normalized_ingredients[r]) = 2

\* C9: for a readable recipe table, whatever its fields hold (here: no text
\* that makes the parser itself raise), run_pipeline does not raise and ends
\* with the two artifacts written.
C9_ReadableTableNeverRaises ==
    (/\ Rows # <<>>
     /\ \A r \in 1..Len(Rows) : Rows[r].kind # "typeerr"
     /\ n_ingredients >= 1) =>
        /\ pc # "raised"
        /\ pc = "done" => (matrix_csv.exists /\ list_csv.exists)

InvalidLiteral(text) == text.kind \in {"syntaxerr", "valueerr", "typeerr"}

\* C10: an ingredient text that is not a valid literal never makes the load
\* raise, and gives its recipe the empty ingredient list.
C10_ParseFailureNeverRaises ==
    pc # "load" =>
        /\ error \notin {"SyntaxError", "ValueError", "TypeError"}
        /\ pc # "raised" =>
              \A r \in 1..Len(Rows) :
                  InvalidLiteral(Rows[r]) => normalized_ingredients[r] = <<>>

\* C11: when the recipe source file does not exist, the run raises at its first
\* step (it never reaches the selection, build or save step) and that step leaves
\* both artifacts as they were: absent stays absent, an older artifact is kept.
C11_MissingSourceWritesNothing ==
    [][~recipes_file.exists =>
          /\ pc' = "raised"
          /\ error' = "FileNotFoundError"
          /\ matrix_csv' = matrix_csv
          /\ list_csv' = list_csv]_vars

\* the run has failed on a missing source, next to the artifacts of an earlier run
C11_Witness ==
    /\ ~recipes_file.exists
    /\ pc = "raised"
    /\ error = "FileNotFoundError"
    /\ matrix_csv.exists
    /\ list_csv.rows # <<>>

\* C12: the saved frequency table has exactly one row per matrix row label, in
\* the order of the matrix rows, and the frequency of a row is the number of
\* recipes holding that ingredient, which is also its diagonal cell.
C12_FrequencyTable ==
    pc = "done" =>
        LET rows == list_csv.rows
            saved == matrix_csv.content
        IN  /\ Len(rows) = Len(saved.index)
            /\ \A k \in 1..Len(rows) :
                  /\ rows[k].ingredient = saved.index[k]
                  /\ rows[k].frequency = RecipesWith({saved.index[k]})
                  /\ rows[k].frequency = saved.cells[<<k, k>>]

\* the saved table has two rows of different frequencies, and the corpus has an
\* ingredient that was counted but is not a label of the matrix
C12_Witness ==
    /\ pc = "done"
    /\ Len(list_csv.rows) = 2
    /\ list_csv.rows[1].frequency > list_csv.rows[2].frequency
    /\ Len(ingredient_counts) > Len(matrix_csv.content.index)

----------------------------------------------------------------------------
(* Properties of _load_cooccurrence_matrix, checked under SpecLoad. *)

FileTable == matrix_csv.content

Stripped == strip_labels(FileTable)

LoadEnded == lpc \in {"returned", "stopped"}

ShapeAccepted ==
    /\ matrix_csv.exists
    /\ Len(FileTable.index) = Len(FileTable.columns)
    /\ Len(FileTable.index) >= MinRows

\* C13: when the matrix file is missing, the table is not square, the table has
\* fewer than 10 rows, or the frequency file is missing, the load ends in
\* st.stop() and the caller receives no (matrix, list) pair.
C13_FatalCasesReturnNothing ==
    (LoadEnded /\ (~ShapeAccepted \/ ~list_csv.exists)) =>
        /\ lpc = "stopped"
        /\ ~load_result.returned
        /\ load_result.cooc_matrix = NoMatrix
        /\ load_result.ingredients_list = <<>>

\* a square table of 9 rows, next to a frequency file, was refused
C13_Witness ==
    /\ lpc = "stopped"
    /\ matrix_csv.exists
    /\ list_csv.exists
    /\ Len(FileTable.index) = MinRows - 1
    /\ Len(FileTable.columns) = MinRows - 1
    /\ load_result.reason = "invalid_shape"

WellFormed(df) ==
    /\ Len(df.index) = Len(df.columns)
    /\ df.index = df.columns
    /\ ~has_duplicates(df.index)
    /\ ~has_duplicates(df.columns)
    /\ \A i \in 1..Len(df.index), j \in 1..Len(df.columns) :
          /\ df.cells[<<i, j>>] >= 0
          /\ Len(df.index) = Len(df.columns) => df.cells[<<i, j>>] = df.cells[<<j, i>>]

\* C14: every matrix the load returns is square, has the same label sequence on
\* both axes, has no duplicated label, is symmetric and has no negative entry,
\* whatever the file holds.
C14_ReturnedMatrixWellFormed ==
    load_result.returned => WellFormed(load_result.cooc_matrix)

MismatchCase ==
    /\ LoadEnded
    /\ ShapeAccepted
    /\ list_csv.exists
    /\ label_mismatch(Stripped)

CommonLabels == Range(Stripped.index) \cap Range(Stripped.columns)

MismatchReported ==
    /\ mismatch_report.warned
    /\ mismatch_report.rows_only = Cardinality(Range(Stripped.index) \ Range(Stripped.columns))
    /\ mismatch_report.cols_only = Cardinality(Range(Stripped.columns) \ Range(Stripped.index))

\* C15 as stated: for an accepted table whose stripped row-label set differs
\* from its column-label set, the load returns, the row-only and column-only
\* counts are reported, both axes of the result carry exactly the common labels,
\* and every cell of the result is the value the file holds for its two labels.
C15_IntersectionKeepsFileValues ==
    MismatchCase =>
        LET m == load_result.cooc_matrix
        IN  /\ load_result.returned
            /\ MismatchReported
            /\ Range(m.index) = CommonLabels
            /\ Range(m.columns) = CommonLabels
            /\ \A p \in 1..Len(m.index), q \in 1..Len(m.columns) :
                  \E r \in 1..Len(Stripped.index), c \in 1..Len(Stripped.columns) :
                     /\ Stripped.index[r] = m.index[p]
                     /\ Stripped.columns[c] = m.columns[q]
                     /\ FileTable.cells[<<r, c>>] = m.cells[<<p, q>>]

\* C15, amended: the load returns, the counts are reported and both axes carry
\* exactly the common labels; when no stripped label occurs twice on an axis,
\* both axes are the common labels in sorted order and every cell is the value
\* the file holds for its two labels.
C15_IntersectionOfDistinctLabels ==
    MismatchCase =>
        LET m == load_result.cooc_matrix
        IN  /\ load_result.returned
            /\ MismatchReported
            /\ Range(m.index) = CommonLabels
            /\ Range(m.columns) = CommonLabels
            /\ (~has_duplicates(Stripped.index) /\ ~has_duplicates(Stripped.columns)) =>
                  /\ m.index = sorted(CommonLabels)
                  /\ m.columns = sorted(CommonLabels)
                  /\ \A p \in 1..Len(m.index), q \in 1..Len(m.columns) :
                        m.cells[<<p, q>>] =
                            FileTable.cells[<<IndexOf(Stripped.index, m.index[p]),
                                              IndexOf(Stripped.columns, m.columns[q])>>]

\* an 11 x 11 table without duplicated label, one label only in the rows and one
\* only in the columns, a common label that sorting moves to the front
C15_Witness ==
    /\ MismatchCase
    /\ load_result.returned
    /\ ~has_duplicates(Stripped.index)
    /\ ~has_duplicates(Stripped.columns)
    /\ mismatch_report.rows_only = 1
    /\ mismatch_report.cols_only = 1
    /\ Len(load_result.cooc_matrix.index) = MinRows
    /\ load_result.cooc_matrix.index[1] # Stripped.index[1]

----------------------------------------------------------------------------
(* Properties of _select_top_ingredients, checked under SpecSelect. *)

Selected == sel_result.top_final

SubMatrix == sel_result.sub_matrix

ListLabelsOf(rows) == Range([k \in 1..Len(rows) |-> rows[k].ingredient])

ZeroOverlap == ListLabelsOf(sel_list) \cap Range(sel_matrix.index) = {}

\* the matrix has the labels of a CooccurrenceMatrix: one sequence, no repeat
LabelsConform == sel_matrix.index = sel_matrix.columns /\ ~has_duplicates(sel_matrix.index)

\* the list has the labels of a FrequencyTable: one row per ingredient
OneRowPerIngredient == Cardinality(ListLabelsOf(sel_list)) = Len(sel_list)

\* C16: with no list label among the row labels, the selected labels are the
\* first n row labels in matrix order (all of them when there are fewer than n),
\* the sub-matrix has those labels on both axes in that order with the cells of
\* the matrix, and a second call on the same arguments gives the same outcome.
C16_FallbackFirstRows ==
    (spc # "start" /\ ZeroOverlap /\ LabelsConform) =>
        /\ sel_result.raised = "none"
        /\ sel_result.fallback
        /\ Len(Selected) = Min(sel_n, Len(sel_matrix.index))
        /\ \A k \in 1..Len(Selected) : Selected[k] = sel_matrix.index[k]
        /\ SubMatrix.index = Selected
        /\ SubMatrix.columns = Selected
        /\ \A p, q \in 1..Len(Selected) :
              SubMatrix.cells[<<p, q>>] = sel_matrix.cells[<<p, q>>]
        /\ spc = "twice" => sel_again = sel_result

\* a matrix of two rows that are not in sorted order, an unrelated list, n = 1
C16_Witness ==
    /\ spc = "twice"
    /\ ZeroOverlap
    /\ LabelsConform
    /\ sel_list # <<>>
    /\ sel_n = 1
    /\ Len(sel_matrix.index) = 2
    /\ LabelLess(sel_matrix.index[2], sel_matrix.index[1])
    /\ sel_result.fallback
    /\ Len(Selected) = 1

\* the list rows whose label is a row label of the matrix
Kept == {r \in 1..Len(sel_list) : sel_list[r].ingredient \in Range(sel_matrix.index)}

\* the number of kept rows that come before row r in the ranking
RankOf(r) ==
    Cardinality({o \in Kept :
        \/ sel_list[o].frequency > sel_list[r].frequency
        \/ sel_list[o].frequency = sel_list[r].frequency /\ o < r})

\* the rows among the n first of the ranking whose label is a column label
Chosen ==
    {r \in Kept : RankOf(r) < sel_n /\ sel_list[r].ingredient \in Range(sel_matrix.columns)}

\* C17: with a list label among the row labels, the selected labels are those of
\* the list rows whose label is a row label, reduced to the n of largest
\* frequency (descending, equal frequencies in list order), and then to the
\* labels that are column labels.
C17_RankedThenColumnFiltered ==
    (spc # "start" /\ ~ZeroOverlap /\ sel_result.raised = "none") =>
        /\ ~sel_result.fallback
        /\ Len(Selected) = Cardinality(Chosen)
        /\ \A r \in Chosen :
              Selected[1 + Cardinality({o \in Chosen : RankOf(o) < RankOf(r)})]
                  = sel_list[r].ingredient

\* the second list row ranks first, and the first is dropped for want of a column
C17_Witness ==
    /\ spc # "start"
    /\ sel_result.raised = "none"
    /\ Len(sel_list) = 2
    /\ Kept = {1, 2}
    /\ sel_list[2].frequency > sel_list[1].frequency
    /\ sel_n = 2
    /\ Chosen = {2}
    /\ Selected = <<sel_list[2].ingredient>>

C19_MismatchNeverRaises ==
    (spc # "start" /\ ZeroOverlap) =>
        /\ sel_result.raised = "none"
        /\ sel_result.fallback

----------------------------------------------------------------------------
(* Properties of _generate_key, checked under SpecKey. *)

ItemsOf(params) == Range(params)

\* the two mappings have the same keys and give some key different values
DifferInAValue ==
    /\ {i[1] : i \in ItemsOf(key_call.first)} = {i[1] : i \in ItemsOf(key_call.second)}
    /\ ItemsOf(key_call.first) # ItemsOf(key_call.second)

\* C20: for one analyzer and operation, both keys have 32 characters, two
\* mappings holding the same key-value pairs give the same key whatever their
\* insertion order, and two mappings that differ in a value give different keys.
C20_KeyIgnoresInsertionOrder ==
    kpc = "both" =>
        /\ Len(first_key) = KeyLength
        /\ Len(second_key) = KeyLength
        /\ ItemsOf(key_call.first) = ItemsOf(key_call.second) => first_key = second_key
        /\ DifferInAValue => first_key # second_key

\* the same two pairs inserted in opposite orders
C20_Witness ==
    /\ kpc = "both"
    /\ Len(key_call.first) = 2
    /\ key_call.first # key_call.second
    /\ ItemsOf(key_call.first) = ItemsOf(key_call.second)
    /\ first_key = second_key

----------------------------------------------------------------------------
(* Properties of CacheManager                                              *)

GetReturned == last_call.op = "get"

Unreadable(entry) == entry.kind \in {"corrupt", "invalid_format"}

\* C22: a get on an entry that is unreadable bytes or lacks the expected fields
\* returns None without raising and leaves the entry in place; a set of a
\* payload that cannot be serialized returns False without raising, leaves no
\* entry for its key, and a get on that key is then a miss
C22_FailuresAreValues ==
    [][/\ last_call'.op = "get" /\ Unreadable(cache_files[cache_path(last_call'.call)])
            => /\ last_call'.result = "None"
               /\ cache_files' = cache_files
       /\ last_call'.op = "set" /\ last_call'.value = Unserializable
            => /\ last_call'.result = "False"
               /\ cache_files'[cache_path(last_call'.call)] = Absent
               /\ cache_get(cache_files', last_call'.call) = "None"]_vars

C22_Witness ==
    /\ GetReturned
    /\ cache_files[cache_path(last_call.call)].kind = "invalid_format"
    /\ last_call.result = "None"
    /\ \E call \in CacheCalls : entry_note[call] = "failed_set" /\ cache_files[cache_path(call)] = Absent

\* C23: a clear removes every entry of its scope (all entries, those of one
\* analyzer, or those of one analyzer and operation) and no other; it returns
\* the number of entries it removed, and a get on any triple outside the scope
\* returns what it returned before the clear
C23_ClearRemovesExactlyItsScope ==
    [][last_call'.op = "clear" =>
          /\ \A call \in CacheCalls :
                IF Covers(last_call'.call, call)
                THEN cache_files'[cache_path(call)] = Absent
                ELSE /\ cache_files'[cache_path(call)] = cache_files[cache_path(call)]
                     /\ cache_get(cache_files', call) = cache_get(cache_files, call)
          /\ last_call'.count =
                Cardinality({call \in CacheCalls :
                                /\ Covers(last_call'.call, call)
                                /\ cache_files[cache_path(call)] # Absent})]_vars

C23_Witness ==
    /\ last_call.op = "clear"
    /\ last_call.call.operation # "*"
    /\ last_call.count = 1
    /\ \E call \in CacheCalls :
          /\ call.analyzer = last_call.call.analyzer
          /\ ~Covers(last_call.call, call)
          /\ cache_get(cache_files, call) = "v1"
----------------------------------------------------------------------------
(* Properties of CacheableMixin.cached_operation                            *)

\* C24 as stated: with caching enabled the wrapped function runs at most once
\* for a triple until its entry is cleared
C24_RunsAtMostOnceUntilCleared ==
    \A call \in CacheCalls : runs[call] <= 1

\* C24 amended: with caching enabled the wrapped function runs exactly on a
\* miss; once a result that get can return (serializable and not None) is
\* stored for a triple, later calls on it return that result without running
\* the function until a clear covers it; a triple with no such result stored,
\* whatever other triples hold, runs the function; with caching disabled the
\* function runs on every call
C24_RunsExactlyOnMiss ==
    [][last_call'.op = "cached" =>
          IF cache_enabled
          THEN /\ last_call'.ran <=> last_call'.probe = "None"
               /\ latest[last_call'.call] # "None"
                    => ~last_call'.ran /\ last_call'.result = latest[last_call'.call]
               /\ latest[last_call'.call] = "None"
                    => last_call'.ran /\ last_call'.result = last_call'.value
          ELSE last_call'.ran /\ last_call'.result = last_call'.value]_vars

C24_Witness ==
    /\ last_call.op = "cached"
    /\ last_call.enabled
    /\ ~last_call.ran
    /\ last_call.result = "v1"
    /\ runs[last_call.call] = 1
    /\ \E other \in CacheCalls :
          /\ other.analyzer = last_call.call.analyzer
          /\ other.operation = last_call.call.operation
          /\ other # last_call.call
          /\ latest[other] = "v2"
----------------------------------------------------------------------------
(* Properties of the deduplication step of _load_cooccurrence_matrix         *)

\* the table the duplicate test of line 132 looks at
BeforeDeduplication == reordered(restricted(Stripped))

DuplicateCase ==
    /\ load_result.returned
    /\ \/ has_duplicates(BeforeDeduplication.index)
       \/ has_duplicates(BeforeDeduplication.columns)

\* one row per distinct label, each the element-wise sum of the input rows
\* carrying the label
RowsSummed ==
    LET src == BeforeDeduplication
        out == load_result.cooc_matrix
    IN  /\ ~has_duplicates(out.index)
        /\ Range(out.index) = Range(src.index)
        /\ \A i \in 1..Len(out.index), j \in 1..Len(out.columns) :
              \E k \in 1..Len(src.columns) :
                 /\ src.columns[k] = out.columns[j]
                 /\ out.cells[<<i, j>>] = SumRows(src, Positions(src.index, out.index[i]), k)

\* C25: when the row or column labels of the loaded table contain duplicates,
\* the returned matrix has one row per distinct label, that row being the sum
\* of the input rows carrying the label, and its column-label sequence equals
\* its row-label sequence
C25_DuplicatesSummedAndRealigned ==
    DuplicateCase =>
        /\ RowsSummed
        /\ load_result.cooc_matrix.columns = load_result.cooc_matrix.index
----------------------------------------------------------------------------
(* Properties of the sub-matrix of _select_top_ingredients                    *)

CellDefined(df, a, b) == a \in Range(df.index) /\ b \in Range(df.columns)

----------------------------------------------------------------------------
(* Properties of IngredientsClusteringPage.run and App.run                    *)

\* C27: in every script run, _perform_clustering is called only with a number
\* of clusters that is at most the number of rows of the selected sub-matrix
C27_ClustersAtMostRows ==
    run_result.clustering.called =>
        run_result.clustering.k <= run_result.clustering.rows

\* C28: _generate_tsne runs the embedding with min(requested, rows - 1): a
\* requested perplexity of at least the number of rows becomes rows - 1, a
\* smaller one is used as it is, and tsne_params["perplexity"] holds the value
\* used, not the one requested
C28_PerplexityClamped ==
    run_result.tsne.called =>
        /\ run_result.tsne.requested >= run_result.tsne.rows
              => run_result.tsne.used = run_result.tsne.rows - 1
        /\ run_result.tsne.requested < run_result.tsne.rows
              => run_result.tsne.used = run_result.tsne.requested
        /\ ~session.tsne_data.error
        /\ session.tsne_data.perplexity = run_result.tsne.used

\* ten rows and a requested perplexity of ten
C28_Witness ==
    /\ run_result.tsne.called
    /\ run_result.tsne.rows = MinRows
    /\ run_result.tsne.requested = MinRows
    /\ session.tsne_data.perplexity = MinRows - 1

SameAnalysis == \A key \in SessionKeys : session.by[key] = session.by["clusters"]

\* C29: whenever a script run renders results, the session holds matrix,
\* ingredient_names, clusters, tsne_data and last_params stored by one and the
\* same analysis, and last_params has the n_ingredients, n_clusters and
\* tsne_perplexity of the current sidebar
C29_RenderedResultsMatchSidebar ==
    run_result.rendered =>
        /\ session.keys = SessionKeys
        /\ SameAnalysis
        /\ session.last_params.n_ingredients = sidebar.n_ingredients
        /\ session.last_params.n_clusters = sidebar.n_clusters
        /\ session.last_params.tsne_perplexity = sidebar.tsne_perplexity
        /\ session.clusters.k = sidebar.n_clusters
        /\ session.clusters.rows = Len(session.ingredient_names)
        /\ session.matrix.index = session.ingredient_names

\* the second run re-analyses because a slider moved, the button not pressed
C29_Witness ==
    /\ run_result.rendered
    /\ run_result.analyzed
    /\ run_result.params_changed
    /\ ~sidebar.analyze_button
    /\ session.by["clusters"] = 2

PageConstructedByApp ==
    /\ run_result.caller = "app"
    /\ run_result.outcome \notin {"no_data", "other_page"}

\* C30: when the clustering page is selected, App.run constructs the page with
\* the co-occurrence matrix artifact as matrix_path and the frequency table as
\* ingredients_list_path, never with the raw recipes file
C30_PageReadsMatrixArtifact ==
    PageConstructedByApp =>
        /\ page.matrix_path = MatrixArtifact
        /\ page.ingredients_list_path = ListArtifact
        /\ page.matrix_path # RecipesSource
====
